---------------------------- MODULE Spec2Model ----------------------------
(***************************************************************************)
(* Order lifecycle and customer-balance ledger of the order controller.   *)
(*                                                                         *)
(* Every request handler is an async function: it validates its input,    *)
(* reads the rows it needs, computes what it will write from what it read, *)
(* then writes (inside prisma.$transaction where the handler uses one) and *)
(* finally creates notification rows.  Between those awaits other requests *)
(* run, so a request is modelled as three steps:                           *)
(*   the handler's action  - validation, reads, computed write list        *)
(*   Transaction           - the writes, committed together or not at all  *)
(*   Notify                - the notification rows and the response        *)
(* Spec runs one request at a time; SpecConc interleaves the requests of   *)
(* several clients at their awaits.                                        *)
(*                                                                         *)
(* Amounts are whole numbers (parseFloat of a whole amount is that         *)
(* amount); a null id is 0; a null deliveredAt is FALSE.                   *)
(***************************************************************************)
EXTENDS Integers, Sequences, FiniteSets, Bags, TLC

(* ----------------------------- bounds --------------------------------- *)
\* requests started in one run
MaxOps == 3
\* customer rows
NumCustomers == 1
\* order rows
MaxOrders == 2
\* requests of the second client in one run
MaxOverlap == 1
\* device tokens a push subscription may carry
NumTokens == 2
\* days a run of the daily closing spans
MaxDays == 2
\* order requests answered with success in a run of the daily closing
MaxDayOps == 4

(* --------------------------- static data ------------------------------ *)
\* the clients whose requests interleave in SpecConc
Procs == {1, 2}
Customers == 1..NumCustomers
\* rider profile rows
Riders == {1, 2}
\* a rider id with no row
MissingRider == 3
\* customerId 'walkin' of createOrder (an id no customer row has)
WalkinSentinel == -1
\* the customer row named 'Walk-in Customer'
WalkinCustomer == 1
\* customer balances at account creation
InitBalances == {0, -30}
\* ids a request may name: the sentinel, the rows, and one id with no row
CustomerIdInputs == {WalkinSentinel} \cup (1..(NumCustomers + 1))
\* riderId of a create: none, a rider, and an id with no row
RiderIdInputs == {0, 1, MissingRider}
\* numberOfBottles and unitPrice of a create or an amend
OrderLines == {<<2, 50>>, <<1, 30>>}
Payments == {0, 60, 100}
\* statuses and rider ids a status update or a generic update may carry
StatusInputs == {"PENDING", "IN_PROGRESS", "DELIVERED"}
ReassignRiderInputs == {0, 2, MissingRider}

\* user rows: two ADMIN users, the second one inactive, and one user per rider
AdminUsers == <<101, 102>>
InactiveUsers == {102}
RiderUserId(r) == 200 + r

OrderTypes == {"DELIVERY", "WALKIN", "CLEARBILL", "ENROUTE"}
\* orderType of a create: createOrder treats every type other than DELIVERY
\* and WALKIN alike
CreateTypeInputs == {"DELIVERY", "WALKIN", "ENROUTE", "walkin"}
\* String.prototype.toUpperCase on the strings a request may carry
ToUpperCase(s) ==
  CASE s = "walkin" -> "WALKIN"
    [] s = "delivery" -> "DELIVERY"
    [] OTHER -> s
Statuses == {"PENDING", "ASSIGNED", "CREATED", "IN_PROGRESS", "DELIVERED",
             "COMPLETED", "CANCELLED"}
Roles == {"ADMIN", "RIDER"}

VARIABLES
  orders,         \* the order table: a sequence of rows, an order's id is its index
  balance,        \* Customer.currentBalance of every customer row
  notifications,  \* the notification table: a bag of rows
  req,            \* per client: its request in flight, if any
  response,       \* the last response sent, until the next request arrives
  sent,           \* per client: requests sent so far
  balance0,       \* history: every customer's balance at account creation
  lastOp,         \* history: per customer, the last committed write on it or its orders
  today,          \* the date in Pakistan time, counted in days
  dayStart,       \* createdAt of the orders: those with an id above it were created today
  closings,       \* the dailyClosing table: a sequence of rows, a row's id is its index
  closingRiders,  \* the dailyClosingRider table, each row with its payment methods
  closingPayments,\* the dailyClosingPayment table
  subscriptions,  \* the pushSubscription table: a sequence of rows, a row's id is its index
  answer          \* what the last closing or push call returned

\* the tables of the daily closing and of the push service, which no order
\* handler writes
aux == <<today, dayStart, closings, closingRiders, closingPayments, subscriptions, answer>>

vars == <<orders, balance, notifications, req, response, sent, balance0, lastOp,
          today, dayStart, closings, closingRiders, closingPayments, subscriptions,
          answer>>

\* the variables of the order handlers
orderVars == <<orders, balance, notifications, req, response, sent, balance0, lastOp>>
\* the variables of the daily closing
closingVars == <<today, dayStart, closings, closingRiders, closingPayments>>

store == [orders |-> orders, balance |-> balance]

(* ------------------------ rows and requests --------------------------- *)
\* column defaults of a new order row
OrderDefaults ==
  [customerId |-> 0, riderId |-> 0, orderType |-> "DELIVERY", status |-> "PENDING",
   numberOfBottles |-> 1, currentOrderAmount |-> 0, customerBalance |-> 0,
   totalAmount |-> 0, paidAmount |-> 0, paymentStatus |-> "NOT_PAID",
   receivable |-> 0, payable |-> 0, deliveredAt |-> FALSE]

\* a row with the columns named in data replaced
Merge(row, data) ==
  [f \in DOMAIN row |-> IF f \in DOMAIN data THEN data[f] ELSE row[f]]

NoInput ==
  [n |-> 0, u |-> 0, type |-> "", rider |-> 0, paid |-> 0, status |-> "", role |-> "",
   customer |-> 0, hasPaid |-> FALSE]

IdleReq ==
  [phase |-> "idle", op |-> "none", id |-> 0, cust |-> 0, in |-> NoInput,
   ws |-> <<>>, readBal |-> 0, old |-> 0, row |-> OrderDefaults,
   committed |-> FALSE, logged |-> FALSE, resp |-> 0]

(* ----------------------------- writes --------------------------------- *)
OrderCreate(data) == [t |-> "create", id |-> 0, data |-> data, bal |-> 0]
OrderUpdate(id, data) == [t |-> "order", id |-> id, data |-> data, bal |-> 0]
CustomerUpdate(c, b) == [t |-> "customer", id |-> c, data |-> <<>>, bal |-> b]

\* a write throws when the row it names is missing or a foreign key has no target
WriteOk(st, w) ==
  CASE w.t = "create" ->
         /\ Merge(OrderDefaults, w.data).customerId \in Customers
         /\ Merge(OrderDefaults, w.data).riderId \in Riders \cup {0}
    [] w.t = "order" ->
         /\ w.id \in 1..Len(st.orders)
         /\ ("riderId" \in DOMAIN w.data /\ w.data.riderId # 0)
              => w.data.riderId \in Riders
    [] OTHER -> w.id \in Customers

ApplyWrite(st, w) ==
  CASE w.t = "create" ->
         [st EXCEPT !.orders = Append(@, Merge(OrderDefaults, w.data))]
    [] w.t = "order" ->
         [st EXCEPT !.orders[w.id] = Merge(@, w.data)]
    [] OTHER ->
         [st EXCEPT !.balance[w.id] = w.bal]

RECURSIVE ApplyAll(_, _)
ApplyAll(st, ws) ==
  IF ws = <<>> THEN st ELSE ApplyAll(ApplyWrite(st, Head(ws)), Tail(ws))

\* index of the first write of ws that throws: one the store refuses, or the
\* failAt-th (a storage failure); Len(ws) + 1 when none does
RECURSIVE FirstFailure(_, _, _, _)
FirstFailure(st, ws, failAt, i) ==
  IF i > Len(ws) THEN i
  ELSE IF i = failAt \/ ~WriteOk(st, ws[i]) THEN i
  ELSE FirstFailure(ApplyWrite(st, ws[i]), ws, failAt, i + 1)

\* a transaction that keeps the writes made before the one that throws
RunTransactionNoRollback(st, ws, failAt) ==
  LET k == FirstFailure(st, ws, failAt, 1)
  IN  [st |-> ApplyAll(st, SubSeq(ws, 1, k - 1)), ok |-> k > Len(ws)]

\* prisma.$transaction(async tx => ...): every write of the callback, or none
RunTransaction(st, ws, failAt) ==
  LET k == FirstFailure(st, ws, failAt, 1)
  IN  IF k > Len(ws) THEN [st |-> ApplyAll(st, ws), ok |-> TRUE]
      ELSE [st |-> st, ok |-> FALSE]

(* ------------------------- request plumbing --------------------------- *)
NewReq(op, id, in) == [IdleReq EXCEPT !.op = op, !.id = id, !.in = in]
\* an answer before any write
Reject(r, code) == [r EXCEPT !.phase = "done", !.resp = code]
\* res.status(code).json(...): the client, the handler, the order the request
\* named or created, the status code, whether its writes were committed,
\* whether a notification step of the request failed and was logged
\* (console.error), and the body of the request
Response(p, r, code) ==
  [client |-> p, op |-> r.op, id |-> r.id, code |-> code, committed |-> r.committed,
   logged |-> r.logged, in |-> r.in]
NoResponse ==
  [client |-> 0, op |-> "none", id |-> 0, code |-> 0, committed |-> FALSE,
   logged |-> FALSE, in |-> NoInput]
\* no closing or push call has returned since the last change of the orders
NoAnswer == [op |-> "none"]

\* a client sends its next request once the previous one was answered.  The
\* second client sends its requests while one of the first is in flight, and
\* a run ends with the requests that overlap.
MaySend(p) ==
  /\ sent[1] + sent[2] < MaxOps
  /\ req[p].phase = "idle"
  /\ IF p = 1 THEN sent[2] = 0
     ELSE sent[p] < MaxOverlap /\ req[1].phase # "idle"
\* the handler goes on to its writes
Proceed(r, c, readBal, ws) ==
  [r EXCEPT !.phase = "tx", !.cust = c, !.readBal = readBal, !.ws = ws]

\* a request that creates an order row is sent while the table has room
Room ==
  Len(orders) + Cardinality({q \in Procs : req[q].op \in {"createOrder", "clearBill"}})
    < MaxOrders

\* order ids a request may name: every row, and one id with no row
OrderIdInputs == 1..(Len(orders) + 1)
\* prisma.order.findUnique({ where: { id } })
OrderExists(id) == id \in 1..Len(orders)

(* ---------------------------- createOrder ----------------------------- *)
\* the customer lookup of createOrder; 0 when no row is found
FindCustomer(customerId) ==
  IF customerId = WalkinSentinel THEN WalkinCustomer
  ELSE IF customerId \in Customers THEN customerId
  ELSE 0

InitialStatus(orderType, riderId) ==
  IF orderType = "WALKIN" THEN "CREATED"
  ELSE IF orderType = "DELIVERY" /\ riderId # 0 THEN "ASSIGNED"
  ELSE "PENDING"

\* a create that sets the customer's balance to the amount of the order alone
createOrderWritesAmountOnly(c, customerBalance, numberOfBottles, unitPrice, orderType, riderId) ==
  LET currentOrderAmount == numberOfBottles * unitPrice
      totalAmount == customerBalance + currentOrderAmount
  IN  << OrderCreate([customerId |-> c,
                      totalAmount |-> totalAmount,
                      currentOrderAmount |-> currentOrderAmount,
                      customerBalance |-> customerBalance,
                      orderType |-> ToUpperCase(orderType),
                      riderId |-> IF orderType = "DELIVERY" THEN riderId ELSE 0,
                      numberOfBottles |-> numberOfBottles,
                      status |-> InitialStatus(orderType, riderId)]),
         CustomerUpdate(c, currentOrderAmount) >>

\* the two writes of createOrder's transaction
createOrderWrites(c, customerBalance, numberOfBottles, unitPrice, orderType, riderId) ==
  LET currentOrderAmount == numberOfBottles * unitPrice
      totalAmount == customerBalance + currentOrderAmount
  IN  << OrderCreate([customerId |-> c,
                      totalAmount |-> totalAmount,
                      currentOrderAmount |-> currentOrderAmount,
                      customerBalance |-> customerBalance,
                      orderType |-> ToUpperCase(orderType),
                      riderId |-> IF orderType = "DELIVERY" THEN riderId ELSE 0,
                      numberOfBottles |-> numberOfBottles,
                      status |-> InitialStatus(orderType, riderId)]),
         CustomerUpdate(c, totalAmount) >>

createOrderRequest(customerId, numberOfBottles, unitPrice, orderType, riderId) ==
  LET r == NewReq("createOrder", 0,
                  [NoInput EXCEPT !.n = numberOfBottles, !.u = unitPrice,
                                  !.type = orderType, !.rider = riderId])
      c == FindCustomer(customerId)
  IN  IF orderType = "DELIVERY" /\ riderId = 0 THEN Reject(r, 400)
      ELSE IF orderType = "WALKIN" /\ riderId # 0 THEN Reject(r, 400)
      ELSE IF c = 0 THEN Reject(r, 404)
      ELSE Proceed(r, c, balance[c],
                   createOrderWrites(c, balance[c], numberOfBottles, unitPrice,
                                     orderType, riderId))

(* ------------------------- updateOrderStatus -------------------------- *)
updateOrderStatusWrites(id, status, riderId) ==
  << OrderUpdate(id, IF riderId # 0
                     THEN [status |-> status, riderId |-> riderId]
                     ELSE [status |-> status]) >>

updateOrderStatusRequest(id, status, riderId) ==
  LET r == NewReq("updateOrderStatus", id,
                  [NoInput EXCEPT !.status = status, !.rider = riderId])
  IN  IF ~OrderExists(id) THEN Reject(r, 404)
      ELSE [Proceed(r, orders[id].customerId, balance[orders[id].customerId],
                    updateOrderStatusWrites(id, status, riderId))
              EXCEPT !.old = orders[id].riderId]

(* -------------------- completeWalkInOrder, deliverOrder --------------- *)
\* a walk-in settlement with no REFUND row
walkInSettlementNoRefund(total, paid) ==
  LET remaining == total - paid
  IN  [paymentStatus |->
         IF paid <= 0 THEN "NOT_PAID"
         ELSE IF paid > 0 /\ paid < total THEN "PARTIAL"
         ELSE IF paid = total THEN "PAID"
         ELSE IF paid > total THEN "OVERPAID"
         ELSE "NOT_PAID",
       receivable |-> IF remaining > 0 THEN remaining ELSE 0,
       payable |-> IF remaining > 0 THEN 0
                   ELSE IF remaining < 0 THEN -remaining ELSE 0]

\* paymentStatus, receivable and payable as completeWalkInOrder derives them
walkInSettlement(total, paid) ==
  LET remaining == total - paid
  IN  [paymentStatus |->
         IF paid = 0 THEN "NOT_PAID"
         ELSE IF paid < 0 THEN "REFUND"
         ELSE IF paid > 0 /\ paid < total THEN "PARTIAL"
         ELSE IF paid = total THEN "PAID"
         ELSE IF paid > total THEN "OVERPAID"
         ELSE "NOT_PAID",
       receivable |-> IF remaining > 0 THEN remaining ELSE 0,
       payable |-> IF remaining > 0 THEN 0
                   ELSE IF remaining < 0 THEN -remaining ELSE 0]

\* a settlement that stores a negative remainder as it is
deliverSettlementSigned(total, paid) ==
  LET remaining == total - paid
  IN  [paymentStatus |->
         IF paid = 0 THEN "NOT_PAID"
         ELSE IF paid < 0 THEN "REFUND"
         ELSE IF paid > 0 /\ paid < total THEN "PARTIAL"
         ELSE IF paid = total THEN "PAID"
         ELSE IF paid > total THEN "OVERPAID"
         ELSE "NOT_PAID",
       receivable |-> IF remaining > 0 THEN remaining ELSE 0,
       payable |-> IF remaining > 0 THEN 0 ELSE remaining]

\* the same derivation as deliverOrder writes it
deliverSettlement(total, paid) ==
  LET remaining == total - paid
  IN  [paymentStatus |->
         IF paid = 0 THEN "NOT_PAID"
         ELSE IF paid < 0 THEN "REFUND"
         ELSE IF paid > 0 /\ paid < total THEN "PARTIAL"
         ELSE IF paid = total THEN "PAID"
         ELSE IF paid > total THEN "OVERPAID"
         ELSE "NOT_PAID",
       receivable |-> IF remaining > 0 THEN remaining ELSE 0,
       payable |-> IF remaining > 0 THEN 0
                   ELSE IF remaining < 0 THEN -remaining ELSE 0]

\* the two writes of a settlement; order is the row the handler read and
\* currentBalance the balance of its customer read with it
completeWalkInOrderWrites(id, order, currentBalance, paid) ==
  LET s == walkInSettlement(order.totalAmount, paid)
  IN  << OrderUpdate(id, [status |-> "COMPLETED", paidAmount |-> paid,
                          paymentStatus |-> s.paymentStatus,
                          receivable |-> s.receivable, payable |-> s.payable,
                          deliveredAt |-> TRUE]),
         CustomerUpdate(order.customerId, currentBalance - paid) >>

\* a deliver that takes the payment off the order's total, not off the balance
deliverOrderWritesFromTotal(id, order, currentBalance, paid) ==
  LET s == deliverSettlement(order.totalAmount, paid)
  IN  << OrderUpdate(id, [status |-> "DELIVERED", paidAmount |-> paid,
                          paymentStatus |-> s.paymentStatus,
                          receivable |-> s.receivable, payable |-> s.payable,
                          deliveredAt |-> TRUE]),
         CustomerUpdate(order.customerId, order.totalAmount - paid) >>

deliverOrderWrites(id, order, currentBalance, paid) ==
  LET s == deliverSettlement(order.totalAmount, paid)
  IN  << OrderUpdate(id, [status |-> "DELIVERED", paidAmount |-> paid,
                          paymentStatus |-> s.paymentStatus,
                          receivable |-> s.receivable, payable |-> s.payable,
                          deliveredAt |-> TRUE]),
         CustomerUpdate(order.customerId, currentBalance - paid) >>

completeWalkInOrderRequest(id, paymentAmount) ==
  LET r == NewReq("completeWalkInOrder", id, [NoInput EXCEPT !.paid = paymentAmount])
  IN  IF ~OrderExists(id) THEN Reject(r, 404)
      ELSE IF orders[id].orderType # "WALKIN" THEN Reject(r, 400)
      ELSE IF orders[id].status # "CREATED" THEN Reject(r, 400)
      ELSE Proceed(r, orders[id].customerId, balance[orders[id].customerId],
                   completeWalkInOrderWrites(id, orders[id],
                       balance[orders[id].customerId], paymentAmount))

deliverOrderRequest(id, paymentAmount) ==
  LET r == NewReq("deliverOrder", id, [NoInput EXCEPT !.paid = paymentAmount])
  IN  IF ~OrderExists(id) THEN Reject(r, 404)
      ELSE Proceed(r, orders[id].customerId, balance[orders[id].customerId],
                   deliverOrderWrites(id, orders[id],
                       balance[orders[id].customerId], paymentAmount))

(* ---------------------------- cancelOrder ----------------------------- *)
\* a cancel that leaves the customer's balance at the order's total
cancelOrderWritesKeepTotal(id, order) ==
  << OrderUpdate(id, [status |-> "CANCELLED"]),
     CustomerUpdate(order.customerId, order.totalAmount) >>

\* the two writes of cancelOrder's transaction; order is the row read
cancelOrderWrites(id, order) ==
  << OrderUpdate(id, [status |-> "CANCELLED"]),
     CustomerUpdate(order.customerId, order.customerBalance) >>

\* a cancel that does not refuse a delivered order
cancelOrderRequestNoDeliveredCheck(id, role) ==
  LET r == NewReq("cancelOrder", id, [NoInput EXCEPT !.role = role])
  IN  IF ~OrderExists(id) THEN Reject(r, 404)
      ELSE IF orders[id].status = "CANCELLED" THEN Reject(r, 400)
      ELSE Proceed(r, orders[id].customerId, balance[orders[id].customerId],
                   cancelOrderWrites(id, orders[id]))

cancelOrderRequest(id, role) ==
  LET r == NewReq("cancelOrder", id, [NoInput EXCEPT !.role = role])
  IN  IF ~OrderExists(id) THEN Reject(r, 404)
      ELSE IF orders[id].status = "CANCELLED" THEN Reject(r, 400)
      ELSE IF orders[id].status = "DELIVERED" THEN Reject(r, 400)
      ELSE Proceed(r, orders[id].customerId, balance[orders[id].customerId],
                   cancelOrderWrites(id, orders[id]))

(* ---------------------------- updateOrder ----------------------------- *)
\* values a caller may put in the body of the generic update
UpdateTotals == {75}
UpdateBottles == {3}
UpdateRiders == {0, 1}
\* the fields a body carries: none or one of them
UpdateBodies == {{}, {"totalAmount"}, {"numberOfBottles"}, {"status"}, {"riderId"}}

\* updateData: only the body's fields that are not undefined
updateOrderWrites(id, body) == << OrderUpdate(id, body) >>

\* no read and no check: the update itself throws when the row is missing
updateOrderRequest(id, body) ==
  Proceed(NewReq("updateOrder", id,
                 IF "status" \in DOMAIN body
                 THEN [NoInput EXCEPT !.status = body.status] ELSE NoInput),
          0, 0, updateOrderWrites(id, body))

(* ------------------------------ clearBill ----------------------------- *)
ClearPayments == {0, 30, 100}

\* a clear-bill settlement that stores the paid amount with the sign it came with
clearBillSettlementUnsigned(customerBalance, paid) ==
  IF customerBalance > 0
  THEN LET remainingReceivable == customerBalance - paid
       IN  IF remainingReceivable = 0
           THEN [paymentStatus |-> "PAID", receivable |-> 0, payable |-> 0,
                 adjustedPaid |-> paid]
           ELSE IF remainingReceivable < 0
           THEN [paymentStatus |-> "OVERPAID", receivable |-> 0,
                 payable |-> -remainingReceivable, adjustedPaid |-> paid]
           ELSE IF paid > 0
           THEN [paymentStatus |-> "PARTIAL", receivable |-> remainingReceivable,
                 payable |-> 0, adjustedPaid |-> paid]
           ELSE [paymentStatus |-> "NOT_PAID", receivable |-> customerBalance,
                 payable |-> 0, adjustedPaid |-> paid]
  ELSE LET owed == -customerBalance
           remainingPayable == owed - paid
       IN  IF remainingPayable = 0
           THEN [paymentStatus |-> "PAID", receivable |-> 0, payable |-> 0,
                 adjustedPaid |-> paid]
           ELSE IF remainingPayable < 0
           THEN [paymentStatus |-> "OVERPAID", receivable |-> -remainingPayable,
                 payable |-> 0, adjustedPaid |-> paid]
           ELSE IF paid > 0
           THEN [paymentStatus |-> "PARTIAL", receivable |-> 0,
                 payable |-> remainingPayable, adjustedPaid |-> paid]
           ELSE [paymentStatus |-> "NOT_PAID", receivable |-> 0,
                 payable |-> owed, adjustedPaid |-> paid]

\* paymentStatus, receivable, payable and the signed paidAmount of a clear-bill
clearBillSettlement(customerBalance, paid) ==
  IF customerBalance > 0
  THEN LET remainingReceivable == customerBalance - paid
       IN  IF remainingReceivable = 0
           THEN [paymentStatus |-> "PAID", receivable |-> 0, payable |-> 0,
                 adjustedPaid |-> paid]
           ELSE IF remainingReceivable < 0
           THEN [paymentStatus |-> "OVERPAID", receivable |-> 0,
                 payable |-> -remainingReceivable, adjustedPaid |-> paid]
           ELSE IF paid > 0
           THEN [paymentStatus |-> "PARTIAL", receivable |-> remainingReceivable,
                 payable |-> 0, adjustedPaid |-> paid]
           ELSE [paymentStatus |-> "NOT_PAID", receivable |-> customerBalance,
                 payable |-> 0, adjustedPaid |-> paid]
  ELSE LET owed == -customerBalance
           remainingPayable == owed - paid
       IN  IF remainingPayable = 0
           THEN [paymentStatus |-> "PAID", receivable |-> 0, payable |-> 0,
                 adjustedPaid |-> -paid]
           ELSE IF remainingPayable < 0
           THEN [paymentStatus |-> "OVERPAID", receivable |-> -remainingPayable,
                 payable |-> 0, adjustedPaid |-> -paid]
           ELSE IF paid > 0
           THEN [paymentStatus |-> "PARTIAL", receivable |-> 0,
                 payable |-> remainingPayable, adjustedPaid |-> -paid]
           ELSE [paymentStatus |-> "NOT_PAID", receivable |-> 0,
                 payable |-> owed, adjustedPaid |-> -paid]

\* a clear-bill that leaves the customer's balance at the part that was paid
clearBillWritesKeepsPaid(c, customerBalance, paid) ==
  LET s == clearBillSettlement(customerBalance, paid)
  IN  << OrderCreate([customerId |-> c, orderType |-> "CLEARBILL",
                      status |-> "COMPLETED", numberOfBottles |-> 0,
                      currentOrderAmount |-> 0,
                      customerBalance |-> customerBalance,
                      totalAmount |-> customerBalance,
                      paidAmount |-> s.adjustedPaid,
                      paymentStatus |-> s.paymentStatus,
                      receivable |-> s.receivable, payable |-> s.payable,
                      deliveredAt |-> TRUE]),
         CustomerUpdate(c, s.adjustedPaid) >>

\* the two writes of clearBill's transaction
clearBillWrites(c, customerBalance, paid) ==
  LET s == clearBillSettlement(customerBalance, paid)
  IN  << OrderCreate([customerId |-> c, orderType |-> "CLEARBILL",
                      status |-> "COMPLETED", numberOfBottles |-> 0,
                      currentOrderAmount |-> 0,
                      customerBalance |-> customerBalance,
                      totalAmount |-> customerBalance,
                      paidAmount |-> s.adjustedPaid,
                      paymentStatus |-> s.paymentStatus,
                      receivable |-> s.receivable, payable |-> s.payable,
                      deliveredAt |-> TRUE]),
         CustomerUpdate(c, customerBalance - s.adjustedPaid) >>

\* a clear-bill that does not refuse a customer whose balance is zero
clearBillRequestNoZeroCheck(customerId, hasPaid, paidAmount) ==
  LET r == NewReq("clearBill", 0,
                  [NoInput EXCEPT !.paid = paidAmount, !.type = "CLEARBILL",
                                  !.customer = customerId, !.hasPaid = hasPaid])
  IN  IF customerId = 0 THEN Reject(r, 400)
      ELSE IF ~hasPaid THEN Reject(r, 400)
      ELSE IF customerId \notin Customers THEN Reject(r, 404)
      ELSE Proceed(r, customerId, balance[customerId],
                   clearBillWrites(customerId, balance[customerId], paidAmount))

\* customerId 0 is a body without customerId; hasPaid is FALSE for a body
\* without paidAmount
clearBillRequest(customerId, hasPaid, paidAmount) ==
  LET r == NewReq("clearBill", 0,
                  [NoInput EXCEPT !.paid = paidAmount, !.type = "CLEARBILL",
                                  !.customer = customerId, !.hasPaid = hasPaid])
  IN  IF customerId = 0 THEN Reject(r, 400)
      ELSE IF ~hasPaid THEN Reject(r, 400)
      ELSE IF customerId \notin Customers THEN Reject(r, 404)
      ELSE IF balance[customerId] = 0 THEN Reject(r, 400)
      ELSE Proceed(r, customerId, balance[customerId],
                   clearBillWrites(customerId, balance[customerId], paidAmount))

(* ------------------------------ amendOrder ---------------------------- *)
\* an amend that builds the new total on the order's total, not on its snapshot
amendOrderWritesOnTotal(id, order, numberOfBottles, unitPrice, hasRider, riderId) ==
  LET snapshotBalance == order.customerBalance
      newCurrentOrderAmount == numberOfBottles * unitPrice
      newTotalAmount == order.totalAmount + newCurrentOrderAmount
      data == [numberOfBottles |-> numberOfBottles,
               totalAmount |-> newTotalAmount,
               currentOrderAmount |-> newCurrentOrderAmount]
  IN  << CustomerUpdate(order.customerId, snapshotBalance),
         OrderUpdate(id, IF hasRider
                         THEN [f \in DOMAIN data \cup {"riderId"} |->
                                 IF f = "riderId" THEN riderId ELSE data[f]]
                         ELSE data),
         CustomerUpdate(order.customerId, newTotalAmount) >>

\* an amend that takes the order's snapshot again from its total
amendOrderWritesNewSnapshot(id, order, numberOfBottles, unitPrice, hasRider, riderId) ==
  LET snapshotBalance == order.totalAmount
      newCurrentOrderAmount == numberOfBottles * unitPrice
      newTotalAmount == snapshotBalance + newCurrentOrderAmount
      data == [numberOfBottles |-> numberOfBottles,
               totalAmount |-> newTotalAmount,
               currentOrderAmount |-> newCurrentOrderAmount,
               customerBalance |-> snapshotBalance]
  IN  << CustomerUpdate(order.customerId, snapshotBalance),
         OrderUpdate(id, IF hasRider
                         THEN [f \in DOMAIN data \cup {"riderId"} |->
                                 IF f = "riderId" THEN riderId ELSE data[f]]
                         ELSE data),
         CustomerUpdate(order.customerId, newTotalAmount) >>

\* the three writes of amendOrder's transaction; order is the row read,
\* hasRider is FALSE for a body without riderId
amendOrderWrites(id, order, numberOfBottles, unitPrice, hasRider, riderId) ==
  LET snapshotBalance == order.customerBalance
      newCurrentOrderAmount == numberOfBottles * unitPrice
      newTotalAmount == snapshotBalance + newCurrentOrderAmount
      data == [numberOfBottles |-> numberOfBottles,
               totalAmount |-> newTotalAmount,
               currentOrderAmount |-> newCurrentOrderAmount]
  IN  << CustomerUpdate(order.customerId, snapshotBalance),
         OrderUpdate(id, IF hasRider
                         THEN [f \in DOMAIN data \cup {"riderId"} |->
                                 IF f = "riderId" THEN riderId ELSE data[f]]
                         ELSE data),
         CustomerUpdate(order.customerId, newTotalAmount) >>

\* an amend that does not look at the order's status
amendOrderRequestAnyStatus(id, complete, numberOfBottles, unitPrice, hasRider, riderId) ==
  LET r == NewReq("amendOrder", id,
                  [NoInput EXCEPT !.n = numberOfBottles, !.u = unitPrice,
                                  !.rider = IF hasRider THEN riderId ELSE 0])
  IN  IF ~OrderExists(id) THEN Reject(r, 404)
      ELSE IF ~complete THEN Reject(r, 400)
      ELSE Proceed(r, orders[id].customerId, balance[orders[id].customerId],
                   amendOrderWrites(id, orders[id], numberOfBottles, unitPrice,
                                    hasRider, riderId))

\* complete is FALSE for a body without numberOfBottles or without unitPrice
amendOrderRequest(id, complete, numberOfBottles, unitPrice, hasRider, riderId) ==
  LET r == NewReq("amendOrder", id,
                  [NoInput EXCEPT !.n = numberOfBottles, !.u = unitPrice,
                                  !.rider = IF hasRider THEN riderId ELSE 0])
  IN  IF ~OrderExists(id) THEN Reject(r, 404)
      ELSE IF orders[id].status \notin {"PENDING", "ASSIGNED", "IN_PROGRESS"}
      THEN Reject(r, 400)
      ELSE IF ~complete THEN Reject(r, 400)
      ELSE Proceed(r, orders[id].customerId, balance[orders[id].customerId],
                   amendOrderWrites(id, orders[id], numberOfBottles, unitPrice,
                                    hasRider, riderId))

(* ---------------------------- notifications --------------------------- *)
Notification(userId, type, orderId) ==
  [userId |-> userId, type |-> type, orderId |-> orderId]

\* every ADMIN user, active or not
AdminsOfAnyState == AdminUsers

\* prisma.user.findMany({ where: { role: 'ADMIN', isActive: true } })
ActiveAdmins == SelectSeq(AdminUsers, LAMBDA u : u \notin InactiveUsers)

ToAll(users, type, orderId) ==
  [i \in 1..Len(users) |-> Notification(users[i], type, orderId)]

\* a plan that tells only the new rider about a reassignment
NotificationPlanNewRiderOnly(r) ==
  CASE r.op = "createOrder" ->
         IF r.in.rider \in Riders
         THEN << Notification(RiderUserId(r.in.rider), "ORDER_ASSIGNED", r.id) >>
         ELSE << >>
    [] r.op = "updateOrderStatus" ->
         IF r.in.rider # 0 /\ r.in.rider # r.old
         THEN << Notification(RiderUserId(r.row.riderId), "ORDER_ASSIGNED", r.id) >>
         ELSE << >>
    [] r.op = "deliverOrder" ->
         ToAll(ActiveAdmins, "ORDER_DELIVERED", r.id)
    [] r.op = "cancelOrder" ->
         IF r.in.role = "ADMIN"
         THEN IF r.row.riderId # 0
              THEN << Notification(RiderUserId(r.row.riderId), "ORDER_CANCELLED", r.id) >>
              ELSE << >>
         ELSE IF r.in.role = "RIDER" /\ Len(ActiveAdmins) > 0 /\ r.row.riderId # 0
         THEN ToAll(ActiveAdmins, "ORDER_CANCELLED", r.id)
         ELSE << >>
    [] OTHER -> << >>

\* the notification rows a handler creates after its writes, in order;
\* r.row is the order row its write returned
NotificationPlan(r) ==
  CASE r.op = "createOrder" ->
         IF r.in.rider \in Riders
         THEN << Notification(RiderUserId(r.in.rider), "ORDER_ASSIGNED", r.id) >>
         ELSE << >>
    [] r.op = "updateOrderStatus" ->
         IF r.in.rider # 0 /\ r.old # 0 /\ r.in.rider # r.old
         THEN << Notification(RiderUserId(r.old), "ORDER_UNASSIGNED", r.id),
                 Notification(RiderUserId(r.row.riderId), "ORDER_ASSIGNED", r.id) >>
         ELSE IF r.in.rider # 0 /\ r.old = 0
         THEN << Notification(RiderUserId(r.row.riderId), "ORDER_ASSIGNED", r.id) >>
         ELSE << >>
    [] r.op = "deliverOrder" ->
         ToAll(ActiveAdmins, "ORDER_DELIVERED", r.id)
    [] r.op = "cancelOrder" ->
         IF r.in.role = "ADMIN"
         THEN IF r.row.riderId # 0
              THEN << Notification(RiderUserId(r.row.riderId), "ORDER_CANCELLED", r.id) >>
              ELSE << >>
         ELSE IF r.in.role = "RIDER" /\ Len(ActiveAdmins) > 0 /\ r.row.riderId # 0
         THEN ToAll(ActiveAdmins, "ORDER_CANCELLED", r.id)
         ELSE << >>
    [] OTHER -> << >>

\* handlers that go on to notify after their writes
NotifyingOps == {"createOrder", "updateOrderStatus", "deliverOrder", "cancelOrder"}
\* handlers whose writes run inside prisma.$transaction
TransactionOps == {"createOrder", "completeWalkInOrder", "deliverOrder",
                   "cancelOrder", "clearBill", "amendOrder"}
CreatingOps == {"createOrder", "clearBill"}
SuccessCode(op) == IF op \in CreatingOps THEN 201 ELSE 200

(* --------------------- the writes and the response -------------------- *)
NoOp == [op |-> "none", id |-> 0, before |-> 0]

\* the awaited writes of request r against store st: what is committed, the
\* request with the row its write returned, and the history of the customer
Commit(r, st, failAt) ==
  LET res == RunTransaction(st, r.ws, failAt)
      id == IF r.op \in CreatingOps THEN Len(res.st.orders) ELSE r.id
      row == res.st.orders[id]
  IN  [st |-> res.st, ok |-> res.ok,
       r |-> IF res.ok
             THEN [r EXCEPT !.id = id, !.row = row, !.committed = TRUE,
                            !.phase = "notify"]
             ELSE r,
       lastOp |-> IF res.ok
                  THEN [lastOp EXCEPT ![row.customerId] =
                          [op |-> r.op, id |-> id,
                           before |-> st.balance[row.customerId]]]
                  ELSE lastOp]

\* the rows of a plan, which differ in their userId, as a bag
Rows(plan) == SetToBag({plan[i] : i \in 1..Len(plan)})

\* a handler that may still refuse the request after its writes
NotifyOutcomesRefuseLate(r) ==
  { [rows |-> SubSeq(NotificationPlan(r), 1, created), code |-> SuccessCode(r.op),
     logged |-> created < Len(NotificationPlan(r))] :
      created \in 0..Len(NotificationPlan(r)) }
  \cup { [rows |-> << >>, code |-> 400, logged |-> FALSE] }

\* what a handler may do after its writes: the notification rows it creates,
\* the status code it answers and whether it logged a failure.  A read or a
\* create that throws is caught and logged, the rows before it stay, and the
\* handler answers success; a push that throws is caught and logged after the
\* rows were created; cancelOrder reads the customer for its message before
\* its try block, and when that read throws the handler's outer catch
\* answers 500.
NotifyOutcomes(r) ==
  { [rows |-> SubSeq(NotificationPlan(r), 1, created), code |-> SuccessCode(r.op),
     logged |-> created < Len(NotificationPlan(r))] :
      created \in 0..Len(NotificationPlan(r)) }
  \cup (IF Len(NotificationPlan(r)) > 0
        THEN { [rows |-> NotificationPlan(r), code |-> SuccessCode(r.op),
                logged |-> TRUE] }
        ELSE {})
  \cup (IF r.op = "cancelOrder"
        THEN { [rows |-> << >>, code |-> 500, logged |-> TRUE] }
        ELSE {})

\* the whole handler in one step: request r of client p is validated, written
\* and answered with no other request in between
Handle(p, r) ==
  /\ MaySend(p)
  /\ sent' = [sent EXCEPT ![p] = @ + 1]
  /\ IF r.phase = "done"
     THEN /\ response' = Response(p, r, r.resp)
          /\ UNCHANGED <<orders, balance, notifications, lastOp>>
     ELSE \E failAt \in 0..Len(r.ws) :
            LET t == Commit(r, store, failAt)
            IN  /\ orders' = t.st.orders
                /\ balance' = t.st.balance
                /\ lastOp' = t.lastOp
                /\ IF t.ok
                   THEN \E out \in NotifyOutcomes(t.r) :
                          /\ notifications' = notifications (+) Rows(out.rows)
                          /\ response' = Response(p, [t.r EXCEPT !.logged = out.logged],
                                                  out.code)
                   ELSE /\ response' = Response(p, r, 500)
                        /\ UNCHANGED notifications
  /\ UNCHANGED <<req, balance0>>
  /\ UNCHANGED aux

\* the handler up to its first awaited write, or to the answer that rejects
\* the request.  The first client awaits a request that the second client's
\* request will overlap.
Begin(p, r) ==
  /\ MaySend(p)
  /\ p = 1 => sent[1] + 1 < MaxOps
  /\ sent' = [sent EXCEPT ![p] = @ + 1]
  /\ IF r.phase = "done"
     THEN /\ response' = Response(p, r, r.resp)
          /\ UNCHANGED req
     ELSE /\ req' = [req EXCEPT ![p] = r]
          /\ response' = NoResponse
  /\ UNCHANGED <<orders, balance, notifications, balance0, lastOp>>
  /\ UNCHANGED aux

\* a handler that goes on to its notifications although its writes threw
TransactionNotifiesAnyway(p) ==
  /\ req[p].phase = "tx"
  /\ p = 1 => sent[2] > 0
  /\ \E failAt \in 0..Len(req[p].ws) :
       LET t == Commit(req[p], store, failAt)
       IN  /\ orders' = t.st.orders
           /\ balance' = t.st.balance
           /\ lastOp' = t.lastOp
           /\ req' = [req EXCEPT ![p] = [t.r EXCEPT !.phase = "notify"]]
           /\ UNCHANGED response
  /\ UNCHANGED <<notifications, sent, balance0>>
  /\ UNCHANGED aux

\* the awaited writes of the request of client p: committed, or thrown into
\* the handler's catch (500).  Writes of the first client that come before the
\* second client's request arrives are those of Handle.
Transaction(p) ==
  /\ req[p].phase = "tx"
  /\ p = 1 => sent[2] > 0
  /\ \E failAt \in 0..Len(req[p].ws) :
       LET t == Commit(req[p], store, failAt)
       IN  /\ orders' = t.st.orders
           /\ balance' = t.st.balance
           /\ lastOp' = t.lastOp
           /\ IF t.ok
              THEN /\ req' = [req EXCEPT ![p] = t.r]
                   /\ UNCHANGED response
              ELSE /\ req' = [req EXCEPT ![p] = IdleReq]
                   /\ response' = Response(p, req[p], 500)
  /\ UNCHANGED <<notifications, sent, balance0>>
  /\ UNCHANGED aux

\* what the handler of client p does after its writes
Notify(p) ==
  /\ req[p].phase = "notify"
  /\ \E out \in NotifyOutcomes(req[p]) :
       /\ notifications' = notifications (+) Rows(out.rows)
       /\ response' = Response(p, [req[p] EXCEPT !.logged = out.logged], out.code)
  /\ req' = [req EXCEPT ![p] = IdleReq]
  /\ UNCHANGED <<orders, balance, sent, balance0, lastOp>>
  /\ UNCHANGED aux

\* atomic: the handler runs with no other request in between
Send(p, r, atomic) == IF atomic THEN Handle(p, r) ELSE Begin(p, r)

(* ------------------------------ handlers ------------------------------ *)
createOrder(p, atomic) ==
  /\ Room
  /\ \E customerId \in CustomerIdInputs, line \in OrderLines,
        orderType \in CreateTypeInputs, riderId \in RiderIdInputs :
       Send(p, createOrderRequest(customerId, line[1], line[2], orderType, riderId),
            atomic)

updateOrderStatus(p, atomic) ==
  \E id \in OrderIdInputs, status \in StatusInputs, riderId \in ReassignRiderInputs :
    Send(p, updateOrderStatusRequest(id, status, riderId), atomic)

completeWalkInOrder(p, atomic) ==
  \E id \in OrderIdInputs, paymentAmount \in Payments :
    Send(p, completeWalkInOrderRequest(id, paymentAmount), atomic)

deliverOrder(p, atomic) ==
  \E id \in OrderIdInputs, paymentAmount \in Payments :
    Send(p, deliverOrderRequest(id, paymentAmount), atomic)

cancelOrder(p, atomic) ==
  \E id \in OrderIdInputs, role \in Roles :
    Send(p, cancelOrderRequest(id, role), atomic)

updateOrder(p, atomic) ==
  \E id \in OrderIdInputs, given \in UpdateBodies,
     totalAmount \in UpdateTotals, numberOfBottles \in UpdateBottles :
  \E status \in IF "status" \in given THEN StatusInputs ELSE {"PENDING"},
     riderId \in IF "riderId" \in given THEN UpdateRiders ELSE {0} :
    LET full == [totalAmount |-> totalAmount, numberOfBottles |-> numberOfBottles,
                 status |-> status, riderId |-> riderId]
    IN  Send(p, updateOrderRequest(id, [f \in given |-> full[f]]), atomic)

clearBill(p, atomic) ==
  /\ Room
  /\ \E customerId \in 0..(NumCustomers + 1), hasPaid \in BOOLEAN :
     \E paidAmount \in IF hasPaid THEN ClearPayments ELSE {0} :
       Send(p, clearBillRequest(customerId, hasPaid, paidAmount), atomic)

amendOrder(p, atomic) ==
  \E id \in OrderIdInputs, complete \in BOOLEAN, line \in OrderLines,
     hasRider \in BOOLEAN, riderId \in UpdateRiders :
    Send(p, amendOrderRequest(id, complete, line[1], line[2], hasRider, riderId),
         atomic)

(* --------------------------- specifications --------------------------- *)
\* no closing saved, no device subscribed
InitAux ==
  /\ today = 1
  /\ dayStart = 0
  /\ closings = << >>
  /\ closingRiders = << >>
  /\ closingPayments = << >>
  /\ subscriptions = << >>
  /\ answer = NoAnswer

Init ==
  /\ InitAux
  /\ orders = << >>
  /\ balance \in [Customers -> InitBalances]
  /\ balance0 = balance
  /\ notifications = EmptyBag
  /\ req = [p \in Procs |-> IdleReq]
  /\ response = NoResponse
  /\ sent = [p \in Procs |-> 0]
  /\ lastOp = [c \in Customers |-> NoOp]

\* one client, sending the requests whose handlers write an order and its
\* customer; every request is answered before the next one is sent
NextLedger ==
  \/ createOrder(1, TRUE)
  \/ completeWalkInOrder(1, TRUE)
  \/ deliverOrder(1, TRUE)
  \/ cancelOrder(1, TRUE)
  \/ clearBill(1, TRUE)
  \/ amendOrder(1, TRUE)

SpecLedger == Init /\ [][NextLedger]_vars

\* one client, sending any request
Next ==
  \/ NextLedger
  \/ updateOrderStatus(1, TRUE)
  \/ updateOrder(1, TRUE)

Spec == Init /\ [][Next]_vars

\* two clients whose requests interleave at the handlers' awaits.  The first
\* sends the requests whose handlers write an order and its customer; the
\* second creates, completes and delivers orders meanwhile.
\* Before the two requests that overlap, the first client's requests are
\* answered one at a time.
Before == sent[1] + 2 < MaxOps

NextConc ==
  \/ Before /\ createOrder(1, TRUE)
  \/ Before /\ completeWalkInOrder(1, TRUE)
  \/ Before /\ deliverOrder(1, TRUE)
  \/ Before /\ cancelOrder(1, TRUE)
  \/ Before /\ clearBill(1, TRUE)
  \/ Before /\ amendOrder(1, TRUE)
  \/ createOrder(1, FALSE)
  \/ completeWalkInOrder(1, FALSE)
  \/ deliverOrder(1, FALSE)
  \/ cancelOrder(1, FALSE)
  \/ clearBill(1, FALSE)
  \/ amendOrder(1, FALSE)
  \/ createOrder(2, FALSE)
  \/ completeWalkInOrder(2, FALSE)
  \/ deliverOrder(2, FALSE)
  \/ \E p \in Procs : Transaction(p)
  \/ \E p \in Procs : Notify(p)

SpecConc == Init /\ [][NextConc]_vars


\* settlements of one order for totals and payments of either sign: the
\* order was created for a customer with balance B and the handlers that
\* settle it are sent any paymentAmount
SettleBalances == -1..1
SettleAmounts == 0..1
SettlePayments == -2..3
SettleKinds == {<<"WALKIN", 0>>, <<"DELIVERY", 1>>}

InitSettle ==
  \E B \in SettleBalances, a \in SettleAmounts, kind \in SettleKinds :
    LET st == ApplyAll([orders |-> << >>, balance |-> [c \in Customers |-> B]],
                       createOrderWrites(WalkinCustomer, B, a, 1, kind[1], kind[2]))
    IN  /\ orders = st.orders
        /\ balance = st.balance
        /\ balance0 = [c \in Customers |-> B]
        /\ lastOp = [c \in Customers |->
                       IF c = WalkinCustomer
                       THEN [op |-> "createOrder", id |-> 1, before |-> B]
                       ELSE NoOp]
        /\ notifications = EmptyBag
        /\ req = [p \in Procs |-> IdleReq]
        /\ response = NoResponse
        /\ sent = [p \in Procs |-> 0]
        /\ InitAux

deliverAnyAmount ==
  \E id \in OrderIdInputs, paymentAmount \in SettlePayments :
    Send(1, deliverOrderRequest(id, paymentAmount), TRUE)

completeWalkInAnyAmount ==
  \E id \in OrderIdInputs, paymentAmount \in SettlePayments :
    Send(1, completeWalkInOrderRequest(id, paymentAmount), TRUE)

clearBillAnyAmount ==
  /\ Room
  /\ \E customerId \in Customers, paidAmount \in SettlePayments :
       Send(1, clearBillRequest(customerId, TRUE, paidAmount), TRUE)

NextSettle ==
  \/ deliverAnyAmount
  \/ completeWalkInAnyAmount
  \/ clearBillAnyAmount

SpecSettle == InitSettle /\ [][NextSettle]_vars

(* ---------------------------- daily closing --------------------------- *)
\* the statuses that block the closing
InProgressStatuses == {"PENDING", "ASSIGNED", "IN_PROGRESS", "CREATED"}
\* prisma.order.count({ where: { status: { in: [...] } } })
inProgressOrders(os) ==
  Cardinality({i \in DOMAIN os : os[i].status \in InProgressStatuses})

RECURSIVE SumSeq(_)
SumSeq(s) == IF s = << >> THEN 0 ELSE Head(s) + SumSeq(Tail(s))
\* the keys of a Map, in the order of their first set
RECURSIVE MapKeys(_)
MapKeys(s) ==
  IF s = << >> THEN << >>
  ELSE LET d == MapKeys(SubSeq(s, 1, Len(s) - 1))
           x == s[Len(s)]
       IN  IF \E i \in DOMAIN d : d[i] = x THEN d ELSE Append(d, x)

\* the orders created today that are not cancelled, in the order of their ids
todayOrders(os, start) ==
  SelectSeq([i \in 1..Len(os) |-> [id |-> i, row |-> os[i]]],
         LAMBDA o : o.id > start /\ o.row.status # "CANCELLED")
\* order.paymentMethod || 'CASH': the requests carry no paymentMethod, so that
\* an order's column is null or the handlers' default 'CASH'
PaymentMethodOf(o) == "CASH"
PaidOf(list) == SumSeq([i \in 1..Len(list) |-> list[i].row.paidAmount])

\* the figures of the day, as both handlers compute them
closingFigures(os, bal, start) ==
  LET list == todayOrders(os, start)
      OfType(t) == SelectSeq(list, LAMBDA o : o.row.orderType = t)
      Abs(x) == IF x < 0 THEN 0 - x ELSE x
      cs == [c \in 1..NumCustomers |-> bal[c]]
  IN  [customerPayable |-> SumSeq([c \in 1..NumCustomers |->
                                     IF cs[c] < 0 THEN Abs(cs[c]) ELSE 0]),
       customerReceivable |-> SumSeq([c \in 1..NumCustomers |->
                                        IF cs[c] > 0 THEN cs[c] ELSE 0]),
       totalPaidAmount |-> PaidOf(list),
       totalCurrentOrderAmount |->
         SumSeq([i \in 1..Len(list) |-> list[i].row.currentOrderAmount]),
       walkInAmount |-> PaidOf(OfType("WALKIN")),
       clearBillAmount |-> PaidOf(OfType("CLEARBILL")),
       enrouteAmount |-> PaidOf(OfType("ENROUTE")),
       balanceClearedToday |->
         SumSeq([i \in 1..Len(list) |-> list[i].row.currentOrderAmount]) - PaidOf(list),
       totalBottles |-> SumSeq([i \in 1..Len(list) |-> list[i].row.numberOfBottles]),
       totalOrders |-> Len(list)]

\* one entry per payment method of a list of orders
MethodBreakdown(list) ==
  LET methods == MapKeys([i \in 1..Len(list) |-> PaymentMethodOf(list[i])])
  IN  [k \in 1..Len(methods) |->
         LET mine == SelectSeq(list, LAMBDA o : PaymentMethodOf(o) = methods[k])
         IN  [paymentMethod |-> methods[k], amount |-> PaidOf(mine),
              ordersCount |-> Len(mine)]]

\* riderCollectionsMap: one entry per rider of today's orders that have one
riderCollections(os, start) ==
  LET list == SelectSeq(todayOrders(os, start), LAMBDA o : o.row.riderId # 0)
      riderIds == MapKeys([i \in 1..Len(list) |-> list[i].row.riderId])
  IN  [k \in 1..Len(riderIds) |->
         LET mine == SelectSeq(list, LAMBDA o : o.row.riderId = riderIds[k])
         IN  [riderId |-> riderIds[k], amount |-> PaidOf(mine),
              ordersCount |-> Len(mine), paymentMethods |-> MethodBreakdown(mine)]]
\* paymentMethodsMap
paymentMethods(os, start) == MethodBreakdown(todayOrders(os, start))

\* the three tables of the closing
closingTables ==
  [closings |-> closings, riders |-> closingRiders, payments |-> closingPayments]
\* prisma.dailyClosing.findUnique({ where: { date } }): the row's id, or 0
FindClosing(tabs, date) ==
  IF \E i \in DOMAIN tabs.closings : tabs.closings[i].date = date
  THEN CHOOSE i \in DOMAIN tabs.closings : tabs.closings[i].date = date
  ELSE 0

WithClosing(rows, id) ==
  [k \in 1..Len(rows) |-> [dailyClosingId |-> id] @@ rows[k]]

\* a save that adds its breakdown rows to those of the closing it finds
saveDailyClosingWritesKeepsRows(tabs, os, bal, start, date) ==
  LET existing == FindClosing(tabs, date)
      id == IF existing # 0 THEN existing ELSE Len(tabs.closings) + 1
      figures == closingFigures(os, bal, start)
      riders == WithClosing(riderCollections(os, start), id)
      payments == WithClosing(paymentMethods(os, start), id)
  IN  (IF existing # 0
       THEN << [t |-> "updateClosing", id |-> id, data |-> figures] >>
       ELSE << [t |-> "createClosing", data |-> [date |-> date] @@ figures] >>)
      \o [k \in 1..Len(riders) |-> [t |-> "createRider", data |-> riders[k]]]
      \o (IF Len(payments) > 0 THEN << [t |-> "createPayments", rows |-> payments] >>
          ELSE << >>)

\* the queries of saveDailyClosing that write, in the order it awaits them
saveDailyClosingWrites(tabs, os, bal, start, date) ==
  LET existing == FindClosing(tabs, date)
      id == IF existing # 0 THEN existing ELSE Len(tabs.closings) + 1
      figures == closingFigures(os, bal, start)
      riders == WithClosing(riderCollections(os, start), id)
      payments == WithClosing(paymentMethods(os, start), id)
  IN  (IF existing # 0
       THEN << [t |-> "deleteRiders", id |-> id], [t |-> "deletePayments", id |-> id],
               [t |-> "updateClosing", id |-> id, data |-> figures] >>
       ELSE << [t |-> "createClosing", data |-> [date |-> date] @@ figures] >>)
      \o [k \in 1..Len(riders) |-> [t |-> "createRider", data |-> riders[k]]]
      \o (IF Len(payments) > 0 THEN << [t |-> "createPayments", rows |-> payments] >>
          ELSE << >>)

\* one query on the closing tables; a rider row is deleted with its payment
\* methods
ApplyClosingWrite(tabs, w) ==
  CASE w.t = "deleteRiders" ->
         [tabs EXCEPT !.riders = SelectSeq(@, LAMBDA r : r.dailyClosingId # w.id)]
    [] w.t = "deletePayments" ->
         [tabs EXCEPT !.payments = SelectSeq(@, LAMBDA r : r.dailyClosingId # w.id)]
    [] w.t = "updateClosing" ->
         [tabs EXCEPT !.closings[w.id] = Merge(@, w.data)]
    [] w.t = "createClosing" ->
         [tabs EXCEPT !.closings = Append(@, w.data)]
    [] w.t = "createRider" ->
         [tabs EXCEPT !.riders = Append(@, w.data)]
    [] OTHER ->
         [tabs EXCEPT !.payments = @ \o w.rows]

RECURSIVE ApplyClosingWrites(_, _)
ApplyClosingWrites(tabs, ws) ==
  IF ws = << >> THEN tabs
  ELSE ApplyClosingWrites(ApplyClosingWrite(tabs, Head(ws)), Tail(ws))

\* a save that does not count the orders in progress
saveDailyClosingRequestNoCount(tabs, os, bal, start, date, failAt) ==
  LET ws == saveDailyClosingWrites(tabs, os, bal, start, date)
      done == IF failAt > Len(ws) THEN Len(ws) ELSE failAt - 1
  IN  IF failAt = 0
      THEN [code |-> 500, inProgressOrdersCount |-> 0, existing |-> FALSE, tabs |-> tabs]
      ELSE [code |-> IF failAt > Len(ws) + 1 THEN 200 ELSE 500,
            inProgressOrdersCount |-> 0,
            existing |-> FindClosing(tabs, date) # 0,
            tabs |-> ApplyClosingWrites(tabs, SubSeq(ws, 1, done))]

\* saveDailyClosing: the status it answers, whether it found the day's closing
\* (the closing it returns was then updated after it was created), and the
\* tables it leaves.  The queries run outside a transaction: when the
\* failAt-th write throws, those before it stay; failAt 0 is the count of the
\* orders in progress throwing, failAt one past the writes the final read
saveDailyClosingRequest(tabs, os, bal, start, date, failAt) ==
  IF failAt = 0
  THEN [code |-> 500, inProgressOrdersCount |-> 0, existing |-> FALSE, tabs |-> tabs]
  ELSE IF inProgressOrders(os) > 0
  THEN [code |-> 400, inProgressOrdersCount |-> inProgressOrders(os),
        existing |-> FALSE, tabs |-> tabs]
  ELSE LET ws == saveDailyClosingWrites(tabs, os, bal, start, date)
           done == IF failAt > Len(ws) THEN Len(ws) ELSE failAt - 1
       IN  [code |-> IF failAt > Len(ws) + 1 THEN 200 ELSE 500,
            inProgressOrdersCount |-> 0,
            existing |-> FindClosing(tabs, date) # 0,
            tabs |-> ApplyClosingWrites(tabs, SubSeq(ws, 1, done))]

\* the writes a save may make at most: a closing found, every rider, payments
MaxClosingWrites == 3 + Cardinality(Riders) + 1

\* the summary of the day, which writes nothing
getDailyClosingSummary ==
  /\ answer' = [op |-> "getDailyClosingSummary", code |-> 200, date |-> today,
                canClose |-> inProgressOrders(orders) = 0,
                inProgressOrdersCount |-> inProgressOrders(orders),
                alreadyExists |-> FindClosing(closingTables, today) # 0,
                figures |-> closingFigures(orders, balance, dayStart)]
  /\ UNCHANGED <<orderVars, closingVars, subscriptions>>

\* the save of the day's closing; failAt is the query that throws, if any
saveDailyClosing ==
  \E failAt \in 0..(MaxClosingWrites + 2) :
    \E r \in {saveDailyClosingRequest(closingTables, orders, balance, dayStart, today,
                                      failAt)} :
        /\ closings' = r.tabs.closings
        /\ closingRiders' = r.tabs.riders
        /\ closingPayments' = r.tabs.payments
        /\ answer' = [op |-> "saveDailyClosing", code |-> r.code, date |-> today,
                      inProgressOrdersCount |-> r.inProgressOrdersCount,
                      existing |-> r.existing]
        /\ UNCHANGED <<orderVars, today, dayStart, subscriptions>>

\* midnight in Pakistan: getTodayPktDate() moves on
nextDay ==
  /\ today < MaxDays
  /\ today' = today + 1
  /\ dayStart' = Len(orders)
  /\ answer' = NoAnswer
  /\ UNCHANGED <<orderVars, closings, closingRiders, closingPayments, subscriptions>>

\* orderType and riderId of the orders of a day: deliveries by either rider
\* and walk-ins
CreatesOfDay == {<<"DELIVERY", 1>>, <<"DELIVERY", 2>>, <<"WALKIN", 0>>}
\* what a handler that answered with success leaves in the order and customer
\* tables, which are all the closing reads of it: requests that are refused
\* or fail leave the tables as they were
Committed(r) ==
  /\ sent[1] < MaxDayOps
  /\ r.phase = "tx"
  /\ sent' = [sent EXCEPT ![1] = @ + 1]
  /\ \E t \in {RunTransaction(store, r.ws, 0)} :
       /\ t.ok
       /\ orders' = t.st.orders
       /\ balance' = t.st.balance
  /\ answer' = NoAnswer
  /\ UNCHANGED <<notifications, req, response, balance0, lastOp, closingVars,
                 subscriptions>>

\* what a rider collects on delivery: part of the order's amount, or all of it
PaymentsOfDay == {60, 100}
\* the order requests of a day, for the first customer
ordersOfDay ==
  \/ Room /\ \E k \in CreatesOfDay :
               Committed(createOrderRequest(1, 2, 50, k[1], k[2]))
  \/ \E id \in 1..Len(orders), paymentAmount \in PaymentsOfDay :
       Committed(deliverOrderRequest(id, paymentAmount))
  \/ \E id \in 1..Len(orders) : Committed(cancelOrderRequest(id, "ADMIN"))

\* the counter: the order requests, the closing summary and the save, each
\* answered before the next is sent, over the days
NextClosing ==
  \/ ordersOfDay
  \/ nextDay
  \/ getDailyClosingSummary
  \/ saveDailyClosing

SpecClosing == Init /\ [][NextClosing]_vars

(* ------------------------- push subscriptions ------------------------- *)
\* users who subscribe their devices: an admin and a rider's user
PushUsers == {101, RiderUserId(1)}
Tokens == 1..NumTokens
\* a request body without a token
NoToken == 0
\* what one send to Firebase comes to: delivered, refused because the token is
\* invalid or no longer registered, or failed for another reason
SendResults == {"success", "invalidToken", "error"}

\* pushSubscription.create: isActive takes the column's default
NewSubscription(userId, token) ==
  [token |-> token, userId |-> userId, isActive |-> TRUE]
\* the ids of the rows carrying a token
ByToken(subs, token) == {i \in DOMAIN subs : subs[i].token = token}
\* findMany({ where: { userId, isActive: true } })
ActiveOf(subs, userId) ==
  {i \in DOMAIN subs : subs[i].userId = userId /\ subs[i].isActive}
Lowest(S) == CHOOSE i \in S : \A j \in S : i <= j

\* a subscribe that reactivates an existing row without looking at its owner
subscribeRequestKeepsOwner(subs, userId, token) ==
  LET existing == ByToken(subs, token)
      i == Lowest(existing)
  IN  IF token = NoToken
      THEN [code |-> 400, message |-> "Token is required", data |-> << >>, subs |-> subs]
      ELSE IF existing # {}
      THEN [code |-> 200, message |-> "Already subscribed", data |-> subs[i],
            subs |-> [subs EXCEPT ![i].isActive = TRUE]]
      ELSE [code |-> 200, message |-> "Subscribed to push notifications",
            data |-> NewSubscription(userId, token),
            subs |-> Append(subs, NewSubscription(userId, token))]

\* subscribe: the answer and the table it leaves when no query throws
subscribeRequest(subs, userId, token) ==
  LET existing == ByToken(subs, token)
      i == Lowest(existing)
  IN  IF token = NoToken
      THEN [code |-> 400, message |-> "Token is required", data |-> << >>, subs |-> subs]
      ELSE IF existing # {}
      THEN IF subs[i].userId # userId
           THEN [code |-> 200, message |-> "Subscription updated", data |-> subs[i],
                 subs |-> [subs EXCEPT ![i].userId = userId, ![i].isActive = TRUE]]
           ELSE [code |-> 200, message |-> "Already subscribed", data |-> subs[i],
                 subs |-> IF subs[i].isActive THEN subs
                          ELSE [subs EXCEPT ![i].isActive = TRUE]]
      ELSE [code |-> 200, message |-> "Subscribed to push notifications",
            data |-> NewSubscription(userId, token),
            subs |-> Append(subs, NewSubscription(userId, token))]

\* unsubscribe: one device of the user when a token is given, else all of them
unsubscribeRequest(subs, userId, token) ==
  LET mine == {i \in ByToken(subs, token) : subs[i].userId = userId}
      hit == IF token # NoToken
             THEN (IF mine = {} THEN {} ELSE {Lowest(mine)})
             ELSE {i \in DOMAIN subs : subs[i].userId = userId}
  IN  [i \in DOMAIN subs |-> IF i \in hit THEN [subs[i] EXCEPT !.isActive = FALSE]
                             ELSE subs[i]]

\* the result sendToUser returns from its catch block
SendError(userId, attempted, invalid) ==
  [op |-> "sendToUser", user |-> userId, attempted |-> attempted, invalid |-> invalid,
   sent |-> 0, failed |-> 0, total |-> 0, error |-> TRUE]

\* a sendToUser that deactivates every subscription whose send did not succeed
sendToUserDropsFailed(subs, userId, results, dbFails) ==
  LET found == ActiveOf(subs, userId)
      invalidTokens == {i \in found : results[i] # "success"}
      nsent == Cardinality({i \in found : results[i] = "success"})
  IN  IF dbFails = 1 THEN [subs |-> subs, result |-> SendError(userId, {}, {})]
      ELSE IF found = {}
      THEN [subs |-> subs,
            result |-> [op |-> "sendToUser", user |-> userId, attempted |-> {},
                        invalid |-> {}, sent |-> 0, failed |-> 0, total |-> 0,
                        error |-> FALSE]]
      ELSE IF dbFails = 2 /\ invalidTokens # {}
      THEN [subs |-> subs, result |-> SendError(userId, found, invalidTokens)]
      ELSE [subs |-> [i \in DOMAIN subs |->
                        IF i \in invalidTokens THEN [subs[i] EXCEPT !.isActive = FALSE]
                        ELSE subs[i]],
            result |-> [op |-> "sendToUser", user |-> userId, attempted |-> found,
                        invalid |-> {i \in found : results[i] = "invalidToken"},
                        sent |-> nsent, failed |-> Cardinality(found) - nsent,
                        total |-> Cardinality(found), error |-> FALSE]]

\* sendToUser: results gives what the send to each subscription found comes to;
\* dbFails is 1 when findMany throws, 2 when updateMany throws, else 0.  The
\* fields attempted and invalid of the result record what the call did: the
\* subscriptions it sent to, and those whose send reported an invalid token
sendToUserResult(subs, userId, results, dbFails) ==
  LET found == ActiveOf(subs, userId)
      invalidTokens == {i \in found : results[i] = "invalidToken"}
      nsent == Cardinality({i \in found : results[i] = "success"})
  IN  IF dbFails = 1 THEN [subs |-> subs, result |-> SendError(userId, {}, {})]
      ELSE IF found = {}
      THEN [subs |-> subs,
            result |-> [op |-> "sendToUser", user |-> userId, attempted |-> {},
                        invalid |-> {}, sent |-> 0, failed |-> 0, total |-> 0,
                        error |-> FALSE]]
      ELSE IF dbFails = 2 /\ invalidTokens # {}
      THEN [subs |-> subs, result |-> SendError(userId, found, invalidTokens)]
      ELSE [subs |-> [i \in DOMAIN subs |->
                        IF i \in invalidTokens THEN [subs[i] EXCEPT !.isActive = FALSE]
                        ELSE subs[i]],
            result |-> [op |-> "sendToUser", user |-> userId, attempted |-> found,
                        invalid |-> invalidTokens,
                        sent |-> nsent, failed |-> Cardinality(found) - nsent,
                        total |-> Cardinality(found), error |-> FALSE]]

\* POST /api/push/subscribe; throws is a query that fails
subscribe ==
  \E userId \in PushUsers, token \in Tokens \cup {NoToken}, throws \in BOOLEAN :
    LET r == subscribeRequest(subscriptions, userId, token)
        failed == throws /\ token # NoToken
    IN  /\ subscriptions' = IF failed THEN subscriptions ELSE r.subs
        /\ answer' = [op |-> "subscribe", user |-> userId, token |-> token,
                      code |-> IF failed THEN 500 ELSE r.code,
                      message |-> IF failed THEN "Failed to subscribe to push notifications"
                                  ELSE r.message,
                      data |-> IF failed THEN << >> ELSE r.data]
        /\ UNCHANGED <<orderVars, closingVars>>

\* POST /api/push/unsubscribe
unsubscribe ==
  \E userId \in PushUsers, token \in Tokens \cup {NoToken}, throws \in BOOLEAN :
    /\ subscriptions' = IF throws THEN subscriptions
                        ELSE unsubscribeRequest(subscriptions, userId, token)
    /\ answer' = [op |-> "unsubscribe", user |-> userId, token |-> token,
                  code |-> IF throws THEN 500 ELSE 200]
    /\ UNCHANGED <<orderVars, closingVars>>

sendToUser ==
  \E userId \in PushUsers, dbFails \in 0..2 :
    \E results \in [ActiveOf(subscriptions, userId) -> SendResults] :
      LET r == sendToUserResult(subscriptions, userId, results, dbFails)
      IN  /\ subscriptions' = r.subs
          /\ answer' = r.result
          /\ UNCHANGED <<orderVars, closingVars>>

NextPush ==
  \/ subscribe
  \/ unsubscribe
  \/ sendToUser

\* the push routes and the push service, calls answered one at a time
SpecPush == Init /\ [][NextPush]_vars

(* ------------------------------ properties ---------------------------- *)
\* every request has been answered
Quiet == \A p \in Procs : req[p].phase = "idle"

\* the net effect on customer c of its orders among the first i rows that are
\* not cancelled
RECURSIVE LedgerSum(_, _)
LedgerSum(c, i) ==
  IF i = 0 THEN 0
  ELSE LedgerSum(c, i - 1)
       + (IF orders[i].customerId = c /\ orders[i].status # "CANCELLED"
          THEN orders[i].currentOrderAmount - orders[i].paidAmount
          ELSE 0)

\* C1: after any sequence of create, amend, deliver, complete-walk-in,
\* clear-bill and cancel requests, the balance of every customer is its initial
\* balance plus the sum of currentOrderAmount - paidAmount over its orders
\* that are not cancelled.
C1_BalanceIsLedgerSum ==
  \A c \in Customers : balance[c] = balance0[c] + LedgerSum(c, Len(orders))

\* C2: in every reachable state every order has
\* totalAmount = customerBalance + currentOrderAmount, whatever requests
\* (the generic update among them) wrote it.
C2_TotalIsSnapshotPlusAmount ==
  \A i \in 1..Len(orders) :
    orders[i].totalAmount = orders[i].customerBalance + orders[i].currentOrderAmount

\* C3: when the only two requests were two overlapping creates for one
\* customer and both were answered, the later row's snapshot is the earlier
\* row's total and the balance is the initial balance plus both amounts.
C3_ConcurrentCreatesSerialize ==
  ( /\ Quiet
    /\ sent = [p \in Procs |-> 1]
    /\ Len(orders) = 2
    /\ \A i \in 1..2 : orders[i].orderType # "CLEARBILL"
    /\ orders[1].customerId = orders[2].customerId )
  => /\ orders[2].customerBalance = orders[1].totalAmount
     /\ balance[orders[1].customerId]
          = balance0[orders[1].customerId]
            + orders[1].currentOrderAmount + orders[2].currentOrderAmount

\* C4: when a deliver or complete-walk-in with payment p overlapped a create of
\* amount a for the same customer (after the create of the order that is
\* settled), and all three requests were committed and answered, the balance
\* is the initial balance plus the amounts of both orders minus p.
C4_SettlementAndCreateKeepBoth ==
  ( /\ Quiet
    /\ sent[1] = 2 /\ sent[2] = 1
    /\ Len(orders) = 2
    /\ orders[1].customerId = orders[2].customerId
    /\ \A i \in 1..2 : orders[i].orderType # "CLEARBILL"
    /\ orders[1].status \in {"DELIVERED", "COMPLETED"} /\ orders[1].deliveredAt
    /\ orders[2].status \in {"PENDING", "ASSIGNED", "CREATED"}
    /\ ~orders[2].deliveredAt )
  => balance[orders[1].customerId]
       = balance0[orders[1].customerId]
         + orders[1].currentOrderAmount + orders[2].currentOrderAmount
         - orders[1].paidAmount

\* C5: the writes of a transaction of create, deliver, complete-walk-in,
\* cancel, amend or clear-bill are all applied, or (when one of them throws)
\* none is and the request is answered 500.
C5_AllOrNothing ==
  [][\A p \in Procs :
       (req[p].phase = "tx" /\ req'[p].phase # "tx" /\ req[p].op \in TransactionOps)
       => \/ /\ orders' = orders
             /\ balance' = balance
             /\ response' = Response(p, req[p], 500)
          \/ /\ [orders |-> orders', balance |-> balance'] = ApplyAll(store, req[p].ws)
             /\ req'[p].committed]_vars

\* a transaction of two writes was sent by the second client and threw
C5_Witness ==
  /\ response.client = 2
  /\ response.op = "createOrder"
  /\ response.code = 500
  /\ ~response.committed
  /\ orders = << >>
  /\ balance = balance0

\* C6: a create answered 201 for a customer with balance B, n bottles and unit
\* price u appends a row with currentOrderAmount = n * u, customerBalance = B
\* and totalAmount = B + n * u, and sets the customer's balance to that total.
C6_CreateStoresAmounts ==
  [][(response'.op = "createOrder" /\ response'.code = 201)
     => LET id == response'.id
            c == orders'[id].customerId
            n == response'.in.n
            u == response'.in.u
        IN  /\ id = Len(orders) + 1
            /\ Len(orders') = id
            /\ orders'[id].numberOfBottles = n
            /\ orders'[id].currentOrderAmount = n * u
            /\ orders'[id].customerBalance = balance[c]
            /\ orders'[id].totalAmount = balance[c] + n * u
            /\ balance'[c] = orders'[id].totalAmount]_vars

\* B = 0, n = 2, u = 50: amount 100, total 100, balance 100
C6_Witness ==
  /\ response.op = "createOrder" /\ response.code = 201
  /\ response.in.n = 2 /\ response.in.u = 50
  /\ response.id = 1
  /\ balance0[orders[1].customerId] = 0
  /\ orders[1].customerBalance = 0
  /\ orders[1].currentOrderAmount = 100
  /\ orders[1].totalAmount = 100
  /\ balance[orders[1].customerId] = 100

\* C7: a committed cancel of an order whose create was the last committed
\* request on its customer leaves the customer's balance at its value before
\* the create and the order CANCELLED, whatever the order's type.
C7_CreateThenCancelRestores ==
  [][\A c \in Customers :
       ( /\ response'.op = "cancelOrder" /\ response'.committed
         /\ lastOp[c].op = "createOrder" /\ lastOp[c].id = response'.id )
       => /\ balance'[c] = lastOp[c].before
          /\ orders'[response'.id].status = "CANCELLED"
          /\ orders'[response'.id].customerId = c]_vars

\* a walk-in order of a customer with balance -30 was created and cancelled
C7_Witness ==
  /\ sent[1] = 2
  /\ Len(orders) = 1
  /\ response.op = "cancelOrder" /\ response.committed /\ response.id = 1
  /\ orders[1].orderType = "WALKIN"
  /\ orders[1].status = "CANCELLED"
  /\ balance0[orders[1].customerId] = -30
  /\ balance[orders[1].customerId] = -30

\* C8: a cancel of an order that is DELIVERED or CANCELLED is answered 400 and
\* leaves the orders, the balances and the notifications as they were; a
\* cancel of an order in any other status is not refused: it is answered 200
\* with the order CANCELLED, or 500 when the storage throws.
C8_CancelValidation ==
  [][(response'.op = "cancelOrder" /\ response'.id \in 1..Len(orders))
     => IF orders[response'.id].status \in {"DELIVERED", "CANCELLED"}
        THEN /\ response'.code = 400
             /\ UNCHANGED <<orders, balance, notifications>>
        ELSE /\ response'.code \in {200, 500}
             /\ response'.code = 200 => response'.committed
             /\ response'.committed
                  => orders'[response'.id].status = "CANCELLED"
             /\ ~response'.committed
                  => UNCHANGED <<orders, balance, notifications>>]_vars

\* a cancel of a delivered order was refused
C8_Witness ==
  /\ response.op = "cancelOrder"
  /\ response.code = 400
  /\ response.id \in 1..Len(orders)
  /\ orders[response.id].status = "DELIVERED"

\* C9: no request other than a cancel moves the status of an order backward
\* along PENDING, ASSIGNED, IN_PROGRESS, DELIVERED or along CREATED, COMPLETED.
C9_StatusNeverMovesBack ==
  [][LET delivery == <<"PENDING", "ASSIGNED", "IN_PROGRESS", "DELIVERED">>
         walkin == <<"CREATED", "COMPLETED">>
         Back(chain, old, new) ==
           \E i, j \in 1..Len(chain) : chain[i] = old /\ chain[j] = new /\ j < i
     IN  response'.op # "cancelOrder"
         => \A i \in 1..Len(orders) :
              /\ ~Back(delivery, orders[i].status, orders'[i].status)
              /\ ~Back(walkin, orders[i].status, orders'[i].status)]_vars

\* C10: once an order is CANCELLED no request changes its status, and no
\* request that names it changes the balance of its customer.
C10_CancelledIsTerminal ==
  [][\A i \in 1..Len(orders) :
       orders[i].status = "CANCELLED"
       => /\ orders'[i].status = "CANCELLED"
          /\ response'.id = i
               => balance'[orders[i].customerId] = balance[orders[i].customerId]]_vars

\* C11: deliver and complete-walk-in store the paymentStatus of the table for
\* every total and every paid amount: NOT_PAID when paid = 0, REFUND when
\* paid < 0, PARTIAL when 0 < paid < total, PAID when paid = total, OVERPAID
\* when paid > total, and always one of these five.
C11_PaymentStatusTable ==
  [][(response'.op \in {"deliverOrder", "completeWalkInOrder"} /\ response'.committed)
     => LET total == orders[response'.id].totalAmount
            paid == response'.in.paid
            s == orders'[response'.id].paymentStatus
        IN  /\ s \in {"NOT_PAID", "REFUND", "PARTIAL", "PAID", "OVERPAID"}
            /\ paid = 0 => s = "NOT_PAID"
            /\ paid < 0 => s = "REFUND"
            /\ (0 < paid /\ paid < total) => s = "PARTIAL"
            /\ paid = total => s = "PAID"
            /\ paid > total => s = "OVERPAID"]_vars

\* C12: every order settled by deliver, complete-walk-in or clear-bill
\* (status DELIVERED or COMPLETED) has at most one of receivable and payable
\* non-zero, and has both zero exactly when its paymentStatus is PAID.
C12_ReceivableXorPayable ==
  \A i \in 1..Len(orders) :
    (orders[i].status \in {"DELIVERED", "COMPLETED"} /\ orders[i].deliveredAt)
    => /\ ~(orders[i].receivable # 0 /\ orders[i].payable # 0)
       /\ (orders[i].receivable = 0 /\ orders[i].payable = 0)
            <=> orders[i].paymentStatus = "PAID"

\* C13: deliver and complete-walk-in with payment p on an order with total T
\* store receivable = max(T - p, 0) and payable = max(p - T, 0), and in every
\* state before and after a request every order has receivable and payable
\* non-negative and not both non-zero.
C13_ReceivableAndPayable ==
  [][LET Max0(x) == IF x > 0 THEN x ELSE 0
         Sound(row) == /\ row.receivable >= 0
                       /\ row.payable >= 0
                       /\ ~(row.receivable # 0 /\ row.payable # 0)
     IN  /\ (response'.op \in {"deliverOrder", "completeWalkInOrder"}
               /\ response'.committed)
            => /\ orders'[response'.id].receivable
                    = Max0(orders[response'.id].totalAmount - response'.in.paid)
               /\ orders'[response'.id].payable
                    = Max0(response'.in.paid - orders[response'.id].totalAmount)
         /\ \A i \in 1..Len(orders) : Sound(orders[i])
         /\ \A i \in 1..Len(orders') : Sound(orders'[i])]_vars

\* a deliver with payment 3 on an order with total -1 stored payable 4
C13_Witness ==
  /\ response.op = "deliverOrder" /\ response.committed
  /\ response.in.paid = 3
  /\ orders[response.id].totalAmount = -1
  /\ orders[response.id].payable = 4
  /\ orders[response.id].receivable = 0

\* C14: a deliver answered 200 with paymentAmount p lowers the balance of the
\* order's customer by exactly p from its value just before the deliver, sets
\* the order DELIVERED, stores paidAmount = p and stamps deliveredAt; from
\* balance 100 and total 100, p = 100 gives PAID and balance 0, and p = 60
\* gives PARTIAL, receivable 40 and balance 40.
C14_DeliverLowersBalance ==
  [][(response'.op = "deliverOrder" /\ response'.code = 200)
     => LET id == response'.id
            c == orders[id].customerId
            p == response'.in.paid
            before == balance[c] = 100 /\ orders[id].totalAmount = 100
        IN  /\ balance'[c] = balance[c] - p
            /\ orders'[id].status = "DELIVERED"
            /\ orders'[id].paidAmount = p
            /\ orders'[id].deliveredAt
            /\ (before /\ p = 100)
                 => orders'[id].paymentStatus = "PAID" /\ balance'[c] = 0
            /\ (before /\ p = 60)
                 => /\ orders'[id].paymentStatus = "PARTIAL"
                    /\ orders'[id].receivable = 40
                    /\ balance'[c] = 40]_vars

\* the order of 2 bottles at 50 of a customer with balance 0 was delivered
\* with payment 60
C14_Witness ==
  /\ response.op = "deliverOrder" /\ response.code = 200
  /\ response.in.paid = 60
  /\ sent[1] = 2
  /\ balance0[orders[1].customerId] = 0
  /\ orders[1].totalAmount = 100
  /\ orders[1].status = "DELIVERED"
  /\ orders[1].paymentStatus = "PARTIAL"
  /\ orders[1].receivable = 40
  /\ balance[orders[1].customerId] = 40

\* C15: for the same order, payment and customer balance, deliver and
\* complete-walk-in write the same paymentStatus, receivable, payable,
\* paidAmount and customer balance; the rows they leave differ only in the
\* status, DELIVERED or COMPLETED.
C15_SameSettlement ==
  [][LET id == response'.id
         c == orders[id].customerId
         p == response'.in.paid
         asWalkIn == ApplyAll(store,
                       completeWalkInOrderWrites(id, orders[id], balance[c], p))
         asDeliver == ApplyAll(store,
                        deliverOrderWrites(id, orders[id], balance[c], p))
     IN  /\ (response'.op = "deliverOrder" /\ response'.committed)
            => /\ balance' = asWalkIn.balance
               /\ asWalkIn.orders[id].status = "COMPLETED"
               /\ orders'[id] = [asWalkIn.orders[id] EXCEPT !.status = "DELIVERED"]
         /\ (response'.op = "completeWalkInOrder" /\ response'.committed)
            => /\ balance' = asDeliver.balance
               /\ asDeliver.orders[id].status = "DELIVERED"
               /\ orders'[id] = [asDeliver.orders[id] EXCEPT !.status = "COMPLETED"]]_vars

\* a walk-in order was completed with a refund
C15_Witness ==
  /\ response.op = "completeWalkInOrder" /\ response.committed
  /\ response.in.paid < 0
  /\ orders[response.id].status = "COMPLETED"
  /\ orders[response.id].paymentStatus = "REFUND"

\* C16: the writes of a complete-walk-in are committed only to an order of
\* type WALKIN whose status is CREATED, so that no walk-in order is completed
\* twice; a complete-walk-in answered 400 changes no order and no balance.
C16_CompleteWalkInOnlyOnce ==
  [][LET Open(id) == /\ orders[id].orderType = "WALKIN"
                     /\ orders[id].status = "CREATED"
     IN  /\ \A p \in Procs :
              ( /\ req[p].op = "completeWalkInOrder"
                /\ req[p].phase = "tx" /\ req'[p].phase = "notify" )
              => Open(req[p].id)
         /\ ( /\ sent' # sent
              /\ response'.op = "completeWalkInOrder" )
            => /\ response'.committed => Open(response'.id)
               /\ response'.code = 400 => UNCHANGED <<orders, balance>>
               /\ (response'.id \in 1..Len(orders) /\ ~Open(response'.id))
                    => response'.code = 400]_vars

\* C17: the status of a newly created order follows from its type: a
\* DELIVERY order with a rider is ASSIGNED, a DELIVERY order without a rider
\* is PENDING, a WALKIN order is CREATED and a CLEARBILL order is COMPLETED.
C17_InitialStatusByType ==
  [][(response'.op \in CreatingOps /\ response'.committed)
     => LET row == orders'[response'.id]
        IN  /\ response'.id = Len(orders) + 1
            /\ (row.orderType = "DELIVERY" /\ row.riderId # 0)
                 => row.status = "ASSIGNED"
            /\ (row.orderType = "DELIVERY" /\ row.riderId = 0)
                 => row.status = "PENDING"
            /\ row.orderType = "WALKIN" => row.status = "CREATED"
            /\ row.orderType = "CLEARBILL" => row.status = "COMPLETED"
            /\ response'.op = "clearBill" => row.orderType = "CLEARBILL"]_vars

\* C18: a create for a DELIVERY order with no riderId, or for a WALKIN order
\* with a riderId, is answered 400, creates no order and changes no balance.
C18_CreateValidation ==
  [][(response'.op = "createOrder" /\ sent' # sent)
     => LET type == ToUpperCase(response'.in.type)
            rider == response'.in.rider
        IN  ((type = "DELIVERY" /\ rider = 0) \/ (type = "WALKIN" /\ rider # 0))
            => /\ response'.code = 400
               /\ UNCHANGED <<orders, balance>>]_vars

\* C19: a create that names a customer with no row, and a create for a
\* DELIVERY order that names a rider with no row, are answered 404, create no
\* order and change no balance.
C19_CreateNotFound ==
  [][/\ \A customerId \in CustomerIdInputs \ ({WalkinSentinel} \cup Customers),
          line \in OrderLines :
          LET r == createOrderRequest(customerId, line[1], line[2], "DELIVERY", 1)
          IN  r.phase = "done" /\ r.resp = 404
     /\ (response'.op = "createOrder" /\ sent' # sent)
        => /\ response'.code = 404 => UNCHANGED <<orders, balance>>
           /\ ( /\ response'.in.type = "DELIVERY"
                /\ response'.in.rider \notin Riders \cup {0} )
              => /\ response'.code = 404
                 /\ UNCHANGED <<orders, balance>>]_vars

\* C20: an amend is committed only to an order whose status is PENDING,
\* ASSIGNED or IN_PROGRESS; for an order in any other status it is answered
\* 400 and changes no order and no balance; a committed amend leaves the
\* status of the order as it was.
C20_AmendValidation ==
  [][(response'.op = "amendOrder" /\ response'.id \in 1..Len(orders))
     => LET id == response'.id
        IN  IF orders[id].status \in {"PENDING", "ASSIGNED", "IN_PROGRESS"}
            THEN /\ response'.code = 200 => response'.committed
                 /\ response'.committed => orders'[id].status = orders[id].status
            ELSE /\ response'.code = 400
                 /\ ~response'.committed
                 /\ UNCHANGED <<orders, balance>>]_vars

\* an amend of a cancelled order was refused
C20_Witness ==
  /\ response.op = "amendOrder"
  /\ response.code = 400
  /\ response.in.n = 2 /\ response.in.u = 50
  /\ response.id \in 1..Len(orders)
  /\ orders[response.id].status = "CANCELLED"

\* C21: an amend answered 200 with numberOfBottles n and unitPrice u leaves the
\* order's snapshot customerBalance as it was, sets currentOrderAmount = n * u
\* and totalAmount = snapshot + n * u and leaves the balance of the order's
\* customer equal to that total; no request of any kind changes the snapshot
\* of an order that exists.
C21_AmendKeepsSnapshot ==
  [][/\ (response'.op = "amendOrder" /\ response'.code = 200)
        => LET id == response'.id
               n == response'.in.n
               u == response'.in.u
           IN  /\ response'.committed
               /\ orders'[id].customerBalance = orders[id].customerBalance
               /\ orders'[id].numberOfBottles = n
               /\ orders'[id].currentOrderAmount = n * u
               /\ orders'[id].totalAmount = orders[id].customerBalance + n * u
               /\ balance'[orders[id].customerId] = orders'[id].totalAmount
     /\ \A i \in 1..Len(orders) :
          orders'[i].customerBalance = orders[i].customerBalance]_vars

\* the order of 2 bottles at 50 of a customer with balance -30 was amended to
\* 1 bottle at 30: snapshot -30, amount 30, total 0, balance 0
C21_Witness ==
  /\ response.op = "amendOrder" /\ response.code = 200
  /\ response.in.n = 1 /\ response.in.u = 30
  /\ sent[1] = 2
  /\ balance0[orders[1].customerId] = -30
  /\ orders[1].customerBalance = -30
  /\ orders[1].currentOrderAmount = 30
  /\ orders[1].totalAmount = 0
  /\ balance[orders[1].customerId] = 0

\* C22: a committed amend of an order whose create or whose amend was the last
\* committed request on its customer, with the numberOfBottles and the amount
\* the order already has, leaves the order's totalAmount and the customer's
\* balance as they were; and the writes of any committed amend, computed again
\* from the state they left, change nothing.
C22_AmendIdempotent ==
  [][(response'.op = "amendOrder" /\ response'.committed)
     => LET id == response'.id
            c == orders[id].customerId
            n == response'.in.n
            u == response'.in.u
            after == [orders |-> orders', balance |-> balance']
            again == amendOrderWrites(id, orders'[id], n, u,
                                      response'.in.rider # 0, response'.in.rider)
        IN  /\ ( /\ lastOp[c].op \in {"createOrder", "amendOrder"}
                 /\ lastOp[c].id = id
                 /\ orders[id].numberOfBottles = n
                 /\ orders[id].currentOrderAmount = n * u )
               => /\ orders'[id].totalAmount = orders[id].totalAmount
                  /\ balance'[c] = balance[c]
            /\ ApplyAll(after, again) = after]_vars

\* an order was created with 1 bottle at 30 and amended twice with 1 bottle
\* at 30
C22_Witness ==
  /\ sent[1] = 3
  /\ Len(orders) = 1
  /\ response.op = "amendOrder" /\ response.committed
  /\ response.in.n = 1 /\ response.in.u = 30
  /\ lastOp[orders[1].customerId] = [op |-> "amendOrder", id |-> 1,
                                     before |-> balance[orders[1].customerId]]
  /\ orders[1].totalAmount = balance0[orders[1].customerId] + 30
  /\ balance[orders[1].customerId] = balance0[orders[1].customerId] + 30

\* C23: a clear-bill for a customer whose balance is zero is answered 400, and
\* so is one without customerId or without paidAmount; one for a customer with
\* no row is answered 404; each of them creates no order, changes no balance
\* and creates no notification, so the balance that was zero stays zero.
C23_ClearBillValidation ==
  [][(response'.op = "clearBill" /\ sent' # sent)
     => LET body == response'.in
            c == body.customer
        IN  /\ (c = 0 \/ ~body.hasPaid) => response'.code = 400
            /\ (c # 0 /\ body.hasPaid /\ c \notin Customers) => response'.code = 404
            /\ (c \in Customers /\ body.hasPaid /\ balance[c] = 0)
                 => /\ response'.code = 400
                    /\ balance'[c] = 0
            /\ response'.code \in {400, 404}
                 => /\ ~response'.committed
                    /\ UNCHANGED <<orders, balance, notifications>>
            /\ response'.committed => balance[c] # 0]_vars

\* a clear-bill of 30 for a customer whose balance is zero was refused
C23_Witness ==
  /\ response.op = "clearBill" /\ response.code = 400
  /\ response.in.customer \in Customers
  /\ response.in.hasPaid /\ response.in.paid = 30
  /\ balance[response.in.customer] = 0
  /\ \A i \in 1..Len(orders) : orders[i].orderType # "CLEARBILL"

\* C24: a clear-bill answered 201 for a customer with negative balance B and
\* paid amount p appends a CLEARBILL row with paidAmount = -p and sets the
\* customer's balance to B + p; with p = -B the row is PAID with receivable 0
\* and payable 0 and the balance is 0 (B = -30, p = 30: paidAmount -30,
\* balance 0).
C24_ClearBillPayable ==
  [][( /\ response'.op = "clearBill" /\ response'.code = 201
       /\ balance[response'.in.customer] < 0 )
     => LET id == response'.id
            c == response'.in.customer
            B == balance[c]
            p == response'.in.paid
        IN  /\ id = Len(orders) + 1
            /\ orders'[id].orderType = "CLEARBILL"
            /\ orders'[id].customerId = c
            /\ orders'[id].paidAmount = -p
            /\ balance'[c] = B + p
            /\ p = -B => /\ orders'[id].paymentStatus = "PAID"
                         /\ orders'[id].receivable = 0
                         /\ orders'[id].payable = 0
                         /\ balance'[c] = 0
            /\ (B = -30 /\ p = 30) => /\ orders'[id].paidAmount = -30
                                      /\ balance'[c] = 0]_vars

\* the bill of a customer with balance -30 was cleared with 30
C24_Witness ==
  /\ response.op = "clearBill" /\ response.code = 201
  /\ response.in.paid = 30
  /\ sent[1] = 1
  /\ balance0[response.in.customer] = -30
  /\ orders[1].paidAmount = -30
  /\ orders[1].paymentStatus = "PAID"
  /\ balance[response.in.customer] = 0

\* C25: a clear-bill answered 201 for a customer with positive balance B and
\* paid amount p sets the customer's balance to B - p; p = B gives PAID with
\* receivable 0, payable 0 and balance 0; p > B gives OVERPAID with receivable
\* 0, payable p - B and balance -(p - B); 0 < p < B gives PARTIAL with
\* receivable B - p and payable 0.
C25_ClearBillReceivable ==
  [][( /\ response'.op = "clearBill" /\ response'.code = 201
       /\ balance[response'.in.customer] > 0 )
     => LET id == response'.id
            c == response'.in.customer
            B == balance[c]
            p == response'.in.paid
            row == orders'[id]
        IN  /\ id = Len(orders) + 1
            /\ row.orderType = "CLEARBILL"
            /\ balance'[c] = B - p
            /\ p = B => /\ row.paymentStatus = "PAID"
                        /\ row.receivable = 0 /\ row.payable = 0
                        /\ balance'[c] = 0
            /\ p > B => /\ row.paymentStatus = "OVERPAID"
                        /\ row.receivable = 0 /\ row.payable = p - B
                        /\ balance'[c] = -(p - B)
                        /\ balance'[c] < 0
            /\ (0 < p /\ p < B) => /\ row.paymentStatus = "PARTIAL"
                                   /\ row.receivable = B - p
                                   /\ row.payable = 0]_vars

\* the bill of a customer with balance 2 was cleared with 3: payable 1 and
\* balance -1
C25_Witness ==
  /\ response.op = "clearBill" /\ response.code = 201
  /\ response.in.paid = 3
  /\ orders[response.id].customerBalance = 2
  /\ orders[response.id].paymentStatus = "OVERPAID"
  /\ orders[response.id].payable = 1
  /\ balance[response.in.customer] = -1

\* C26: whenever a create, status update, deliver, complete-walk-in, cancel,
\* amend or clear-bill is answered 400 or 404, the request has committed
\* nothing: the orders, the balances and the notifications are as they were
\* when it arrived.
C26_ErrorsWriteNothing ==
  [][( /\ sent' # sent
       /\ response'.op \in {"createOrder", "updateOrderStatus", "deliverOrder",
                            "completeWalkInOrder", "cancelOrder", "amendOrder",
                            "clearBill"}
       /\ response'.code \in {400, 404} )
     => /\ ~response'.committed
        /\ UNCHANGED <<orders, balance, notifications>>]_vars

\* a status update that names no order was answered 404 while an order, a
\* changed balance and a notification were there to change
C26_Witness ==
  /\ response.op = "updateOrderStatus" /\ response.code = 404
  /\ Len(orders) = 1
  /\ balance # balance0
  /\ notifications # EmptyBag

\* C27: whenever the writes of a create, status update, deliver or cancel were
\* committed, the request is answered with success (201 for a create, 200
\* otherwise) whatever failed in its notification steps, and the committed
\* changes stay.
C27_NotificationFailureIsolated ==
  [][(sent' # sent /\ response'.op \in NotifyingOps /\ response'.committed)
     => LET id == response'.id
        IN  /\ response'.code = SuccessCode(response'.op)
            /\ response'.op = "createOrder" => Len(orders') = Len(orders) + 1
            /\ response'.op = "updateOrderStatus"
                 => orders'[id].status = response'.in.status
            /\ response'.op = "deliverOrder" => orders'[id].status = "DELIVERED"
            /\ response'.op = "cancelOrder" => orders'[id].status = "CANCELLED"]_vars

\* C28: a notification row is created only by a request whose writes were
\* committed, after those writes: a step that adds rows to the notification
\* table answers a create, status update, deliver or cancel that committed,
\* the rows name the order of that request, which is in the order table, and
\* when the handler's awaits interleave with other requests the step comes
\* after the step that committed the writes and writes no order and no
\* balance itself; a request that was refused or whose writes threw adds none.
C28_NotifyAfterCommit ==
  [][/\ notifications' # notifications
        => /\ response'.committed
           /\ response'.op \in NotifyingOps
           /\ response'.code \notin {400, 404}
           /\ response'.id \in 1..Len(orders')
           /\ \A row \in BagToSet(notifications') :
                CopiesIn(row, notifications') > CopiesIn(row, notifications)
                => row.orderId = response'.id
           /\ sent' = sent
                => /\ UNCHANGED <<orders, balance>>
                   /\ \E p \in Procs : /\ req[p].phase = "notify"
                                       /\ req[p].committed
                                       /\ req[p].id = response'.id
                                       /\ req'[p] = IdleReq
     /\ \A p \in Procs :
          (req[p].phase = "tx" /\ req'[p].phase = "idle")
          => /\ ~response'.committed
             /\ UNCHANGED notifications
     /\ (sent' # sent /\ ~response'.committed) => UNCHANGED notifications]_vars

\* the second client's deliver was committed and then notified the admin
C28_Witness ==
  /\ response.client = 2
  /\ response.op = "deliverOrder" /\ response.code = 200
  /\ response.committed
  /\ orders[response.id].status = "DELIVERED"
  /\ BagIn(Notification(AdminUsers[1], "ORDER_DELIVERED", response.id), notifications)

\* C29: a status update answered 200 with no notification step failed creates,
\* when it names a rider other than the non-null rider the order had, exactly
\* two rows: ORDER_UNASSIGNED for the old rider's user and ORDER_ASSIGNED for
\* the new rider's user; when it names a rider for an order that had none,
\* exactly one ORDER_ASSIGNED row for that rider's user; and when it names no
\* rider or the rider the order has, no row.
C29_ReassignNotifications ==
  [][(response'.op = "updateOrderStatus" /\ response'.code = 200 /\ ~response'.logged)
     => LET id == response'.id
            old == orders[id].riderId
            new == response'.in.rider
            added == notifications' (-) notifications
        IN  /\ (new # 0 /\ old # 0 /\ new # old)
                 => /\ added = Rows(<< Notification(RiderUserId(old), "ORDER_UNASSIGNED", id),
                                       Notification(RiderUserId(new), "ORDER_ASSIGNED", id) >>)
                    /\ BagCardinality(added) = 2
            /\ (new # 0 /\ old = 0)
                 => /\ added = Rows(<< Notification(RiderUserId(new), "ORDER_ASSIGNED", id) >>)
                    /\ BagCardinality(added) = 1
            /\ (new = 0 \/ new = old) => BagCardinality(added) = 0]_vars

\* an order of rider 1 was given to rider 2 by a status update
C29_Witness ==
  /\ response.op = "updateOrderStatus" /\ response.code = 200 /\ ~response.logged
  /\ response.in.rider = 2
  /\ orders[response.id].riderId = 2
  /\ BagIn(Notification(RiderUserId(1), "ORDER_UNASSIGNED", response.id), notifications)
  /\ BagIn(Notification(RiderUserId(2), "ORDER_ASSIGNED", response.id), notifications)

\* C30: a cancel answered 200 with no notification step failed creates, when
\* an admin cancels an order that has a rider, exactly one ORDER_CANCELLED row,
\* for that rider's user; and when a rider cancels, exactly one
\* ORDER_CANCELLED row for every active admin user and none for a rider.
C30_CancelNotifiesCounterpart ==
  [][(response'.op = "cancelOrder" /\ response'.code = 200 /\ ~response'.logged)
     => LET id == response'.id
            rider == orders[id].riderId
            added == notifications' (-) notifications
        IN  /\ (response'.in.role = "ADMIN" /\ rider # 0)
                 => added = Rows(<< Notification(RiderUserId(rider), "ORDER_CANCELLED", id) >>)
            /\ response'.in.role = "RIDER"
                 => added = Rows(ToAll(ActiveAdmins, "ORDER_CANCELLED", id))]_vars

C32_RiderIffDelivery ==
  \A i \in 1..Len(orders) :
    /\ orders[i].orderType = "DELIVERY" => orders[i].riderId # 0
    /\ orders[i].orderType = "WALKIN" => orders[i].riderId = 0

\* C33: a cancel and a deliver of the same order whose handlers overlap never
\* both commit their writes: when the writes of one of them are committed, the
\* other one, sent by the other client meanwhile, has not committed.
C33_CancelDeliverExclusive ==
  [][\A p \in Procs, q \in Procs :
       LET Other(op) ==
             \/ /\ req[q].op = op
                /\ req[q].id = req[p].id
                /\ req[q].committed
             \/ /\ req[q].phase = "idle"
                /\ response.client = q
                /\ response.op = op
                /\ response.id = req[p].id
                /\ response.committed
       IN  ( /\ p # q
             /\ req[p].phase = "tx"
             /\ req'[p].phase = "notify" )
           => /\ req[p].op = "cancelOrder" => ~Other("deliverOrder")
              /\ req[p].op = "deliverOrder" => ~Other("cancelOrder")]_vars

\* C34: a deliver of an order that is already DELIVERED or COMPLETED does not
\* change the balance of its customer and does not change the order's
\* paidAmount.
C34_PaymentAppliedOnce ==
  [][( /\ response'.op = "deliverOrder"
       /\ sent' # sent
       /\ response'.id \in 1..Len(orders)
       /\ orders[response'.id].status \in {"DELIVERED", "COMPLETED"} )
     => /\ balance' = balance
        /\ orders'[response'.id].paidAmount = orders[response'.id].paidAmount]_vars

\* C35: a clear-bill answered 201, whatever the sign of the paid amount, leaves
\* the customer's balance equal to receivable - payable of the CLEARBILL row
\* it created.
C35_ClearBillAgreesWithBalance ==
  [][(response'.op = "clearBill" /\ response'.code = 201)
     => LET row == orders'[response'.id]
        IN  /\ row.orderType = "CLEARBILL"
            /\ balance'[row.customerId] = row.receivable - row.payable]_vars

\* C36: a save of the daily closing while some order is PENDING, ASSIGNED,
\* IN_PROGRESS or CREATED is not answered with success and leaves the
\* dailyClosing, rider-collection and payment tables as they were; the canClose
\* flag of the summary is true exactly when no order has one of these statuses.
C36_ClosingBlockedByOpenOrders ==
  [][/\ (/\ answer'.op = "saveDailyClosing"
         /\ \E i \in DOMAIN orders :
              orders[i].status \in {"PENDING", "ASSIGNED", "IN_PROGRESS", "CREATED"})
          => /\ answer'.code \in {400, 500}
             /\ UNCHANGED <<closings, closingRiders, closingPayments>>
     /\ answer'.op = "getDailyClosingSummary"
          => (answer'.canClose
                <=> \A i \in DOMAIN orders' :
                      orders'[i].status \notin {"PENDING", "ASSIGNED", "IN_PROGRESS",
                                                "CREATED"})]_vars

\* a save was refused with 400 on a day whose closing is stored with a rider's
\* collection
C36_Witness ==
  /\ answer.op = "saveDailyClosing" /\ answer.code = 400
  /\ answer.inProgressOrdersCount > 0
  /\ FindClosing(closingTables, today) # 0
  /\ \E k \in DOMAIN closingRiders :
       closingRiders[k].dailyClosingId = FindClosing(closingTables, today)

\* today's orders that are not cancelled
LiveToday == {i \in DOMAIN orders : i > dayStart /\ orders[i].status # "CANCELLED"}
\* what the orders of a set have paid
RECURSIVE PaidBy(_)
PaidBy(S) ==
  IF S = {} THEN 0
  ELSE LET i == CHOOSE i \in S : TRUE
       IN  orders[i].paidAmount + PaidBy(S \ {i})

\* C37: no two dailyClosing records carry the same date; after a save
\* answered with success, saves being answered one at a time, the day's
\* closing carries the day's figures, one rider-collection row per rider of
\* the day's orders and one payment row per payment method, each with the
\* amounts of the orders as they are at this save, whatever earlier saves had
\* stored; and a successful save right after a successful save of the same
\* day, the orders unchanged, leaves the three tables as they were.
C37_ClosingReplaced ==
  [][/\ \A i, j \in DOMAIN closings' :
          closings'[i].date = closings'[j].date => i = j
     /\ (answer'.op = "saveDailyClosing" /\ answer'.code = 200)
          => \E id \in DOMAIN closings' :
               LET rs == {k \in DOMAIN closingRiders' :
                            closingRiders'[k].dailyClosingId = id}
                   ps == {k \in DOMAIN closingPayments' :
                            closingPayments'[k].dailyClosingId = id}
               IN  /\ closings'[id].date = today
                   /\ closings'[id].totalPaidAmount = PaidBy(LiveToday)
                   /\ closings'[id].totalOrders = Cardinality(LiveToday)
                   /\ \A k, l \in rs :
                        closingRiders'[k].riderId = closingRiders'[l].riderId => k = l
                   /\ {closingRiders'[k].riderId : k \in rs}
                        = {orders[i].riderId : i \in LiveToday} \ {0}
                   /\ \A k \in rs :
                        LET mine == {i \in LiveToday :
                                       orders[i].riderId = closingRiders'[k].riderId}
                        IN  /\ closingRiders'[k].amount = PaidBy(mine)
                            /\ closingRiders'[k].ordersCount = Cardinality(mine)
                            /\ Len(closingRiders'[k].paymentMethods) = 1
                            /\ closingRiders'[k].paymentMethods[1].amount = PaidBy(mine)
                   /\ \A k, l \in ps :
                        closingPayments'[k].paymentMethod = closingPayments'[l].paymentMethod
                          => k = l
                   /\ (ps = {}) <=> (LiveToday = {})
                   /\ \A k \in ps :
                        /\ closingPayments'[k].amount = PaidBy(LiveToday)
                        /\ closingPayments'[k].ordersCount = Cardinality(LiveToday)
     /\ (/\ answer.op = "saveDailyClosing" /\ answer.code = 200
         /\ answer'.op = "saveDailyClosing" /\ answer'.code = 200)
          => UNCHANGED <<closings, closingRiders, closingPayments>>]_vars

\* a save found the day's closing and stored it again, with the collections of
\* two riders, on the second day
C37_Witness ==
  /\ answer.op = "saveDailyClosing" /\ answer.code = 200 /\ answer.existing
  /\ today = 2
  /\ Cardinality({k \in DOMAIN closingRiders :
                    closingRiders[k].dailyClosingId = FindClosing(closingTables, today)})
       = 2

\* C38: after any sequence of subscribe and unsubscribe calls, answered one at
\* a time, no two push subscriptions carry the same device token; and right
\* after a subscribe by user U with token T that was answered with success,
\* the subscription carrying T belongs to U and is active, whether T was new,
\* inactive, or another user's.
C38_OneSubscriptionPerToken ==
  /\ \A i, j \in DOMAIN subscriptions :
       subscriptions[i].token = subscriptions[j].token => i = j
  /\ (answer.op = "subscribe" /\ answer.code = 200)
       => \E i \in DOMAIN subscriptions :
            /\ subscriptions[i].token = answer.token
            /\ subscriptions[i].userId = answer.user
            /\ subscriptions[i].isActive

\* a subscribe took over a token that was another user's inactive subscription,
\* with a second subscription in the table
C38_Witness ==
  /\ answer.op = "subscribe" /\ answer.code = 200
  /\ answer.message = "Subscription updated"
  /\ ~answer.data.isActive
  /\ Len(subscriptions) = 2

=============================================================================
